---- MODULE Spec2Model ----
(***************************************************************************)
(* A model of the tool resolution engine of librenews/catalog:             *)
(*   ToolCache       src/src/core/tool-cache.ts                            *)
(*   BlueskyScanner  src/src/core/bluesky-scanner.ts                       *)
(*   AIOrchestrator  src/src/core/ai-orchestrator.ts                       *)
(*   AIService       src/services/ai-service.ts (src/unnamed/part_005)     *)
(*   ComlinkServer   src/src/mcp-servers/comlink-server.ts                 *)
(*                                                                         *)
(* JavaScript strings are TLA+ strings, operated on with Len, SubSeq and   *)
(* \o.  A Date is a number of milliseconds; null is NoDate.  A handler     *)
(* runs atomically from one await of an external call (feed search,        *)
(* classifier) to the next, as on the single-threaded event loop.          *)
(***************************************************************************)
EXTENDS Integers, Sequences, FiniteSets, TLC

VARIABLES
    tools,          \* ToolCache.tools: the records in Map insertion order
    lastScan,       \* ToolCache.lastScan: NoDate or a time
    now,            \* the clock read by new Date() / Date.now()
    ticks,          \* how many times the clock has advanced
    scanning,       \* BlueskyScanner.scanning
    scanReq,        \* the scan callers: "idle", or "fetch" while the call awaits the feed
    scanAnswer,     \* the answer given last to a scan caller
    scanResp,       \* what searchPosts gave the scan that completed last
    scanResult,     \* the ScanResult that scan returned
    installedTools, \* AIOrchestrator.installedTools: the identifiers in Set insertion order
    userSessions,   \* ComlinkServer.userSessions: the installed set of each user
    calls,          \* the calls in progress: where each one is suspended, and on what
    served,         \* how many calls have been made
    answer          \* what the call that returned last was, and what it returned,
                    \* until the next call is made

scanVars == <<tools, lastScan, now, ticks, scanning, scanReq, scanAnswer, scanResp, scanResult>>

callVars == <<installedTools, userSessions, calls, served, answer>>

vars == <<scanVars, callVars>>

-----------------------------------------------------------------------------
(* Bounds of the model *)

MaxScanReqs == 2        \* concurrent scan requests
MaxPosts == 2           \* posts in one feed response
MaxTicks == 2           \* advances of the clock
MaxCalls == 2           \* concurrent requests at the server
MaxServed == 3          \* requests the server takes in all
MaxInstalled == 1       \* identifiers handed to setInstalledTools
MaxTools == 2           \* records in the registry of a ToolCache used directly

-----------------------------------------------------------------------------
(* Strings *)

Upper == "ABCDEFGHIJKLMNOPQRSTUVWXYZ"
Lower == "abcdefghijklmnopqrstuvwxyz"
Digits == "0123456789"

\* the character at index i (1-based), "" outside the string
Char(s, i) == IF 1 <= i /\ i <= Len(s) THEN SubSeq(s, i, i) ELSE ""

\* s.substring starting at index i (1-based) equals sub
IncludesAt(s, sub, i) ==
    /\ i >= 1
    /\ i + Len(sub) - 1 <= Len(s)
    /\ SubSeq(s, i, i + Len(sub) - 1) = sub

\* String.prototype.includes
Includes(s, sub) == \E i \in 1..(Len(s) + 1) : IncludesAt(s, sub, i)

\* String.prototype.startsWith
StartsWith(s, sub) == IncludesAt(s, sub, 1)

\* String.prototype.indexOf, 1-based; 0 when absent
RECURSIVE IndexFrom(_, _, _)
IndexFrom(s, sub, i) ==
    IF i + Len(sub) - 1 > Len(s) THEN 0
    ELSE IF IncludesAt(s, sub, i) THEN i
    ELSE IndexFrom(s, sub, i + 1)

IndexOf(s, sub) == IndexFrom(s, sub, 1)

CharsOf(s) == {Char(s, i) : i \in 1..Len(s)}

\* the lower-case letter of each upper-case letter
LowerOf == [c \in CharsOf(Upper) |-> Char(Lower, IndexOf(Upper, c))]

LowerChar(c) == IF c \in DOMAIN LowerOf THEN LowerOf[c] ELSE c

RECURSIVE ToLowerFrom(_, _)
ToLowerFrom(s, i) ==
    IF i > Len(s) THEN "" ELSE LowerChar(Char(s, i)) \o ToLowerFrom(s, i + 1)

\* String.prototype.toLowerCase
ToLowerCase(s) == ToLowerFrom(s, 1)

\* the regex class \s
IsSpace(c) == c \in {" ", "\t", "\n"}

\* the regex class [a-zA-Z0-9_-]
ToolChars == CharsOf(Upper) \cup CharsOf(Lower) \cup CharsOf(Digits) \cup {"_", "-"}

IsToolChar(c) == c \in ToolChars

\* the first index >= i of s that holds no character of the class, Len(s)+1 if none
RECURSIVE SkipSpace(_, _)
SkipSpace(s, i) ==
    IF i <= Len(s) /\ IsSpace(Char(s, i)) THEN SkipSpace(s, i + 1) ELSE i

RECURSIVE SkipToolChars(_, _)
SkipToolChars(s, i) ==
    IF i <= Len(s) /\ IsToolChar(Char(s, i)) THEN SkipToolChars(s, i + 1) ELSE i

\* String.prototype.trim
RECURSIVE TrimEnd(_)
TrimEnd(s) ==
    IF Len(s) > 0 /\ IsSpace(Char(s, Len(s))) THEN TrimEnd(SubSeq(s, 1, Len(s) - 1)) ELSE s

Trim(s) == TrimEnd(SubSeq(s, SkipSpace(s, 1), Len(s)))

\* String.prototype.replace(sub, by) with a string pattern: the first occurrence
ReplaceFirst(s, sub, by) ==
    LET i == IndexOf(s, sub)
    IN  IF i = 0 THEN s
        ELSE SubSeq(s, 1, i - 1) \o by \o SubSeq(s, i + Len(sub), Len(s))

\* the elements of a sequence
Range(q) == {q[i] : i \in 1..Len(q)}

\* [...new Set(q)]: the first occurrence of each element, in order
RECURSIVE Dedupe(_)
Dedupe(q) ==
    IF q = <<>> THEN <<>>
    ELSE LET front == Dedupe(SubSeq(q, 1, Len(q) - 1))
             last == q[Len(q)]
         IN  IF last \in Range(front) THEN front ELSE Append(front, last)

-----------------------------------------------------------------------------
(* ToolCache *)

NoDate == 0                 \* lastScan = null
ScanInterval == 3600000     \* scanInterval, one hour in milliseconds

\* Map.get: the record stored under id, or NoTool
NoTool == [id |-> ""]

HasTool(reg, id) == \E i \in 1..Len(reg) : reg[i].id = id

GetTool(reg, id) ==
    IF HasTool(reg, id) THEN reg[CHOOSE i \in 1..Len(reg) : reg[i].id = id] ELSE NoTool

\* a map that appends whatever the key
MapAppend(reg, rec) == Append(reg, rec)

\* Map.set: replaces the value of an existing key in place, appends a new key
MapSet(reg, rec) ==
    IF HasTool(reg, rec.id)
    THEN [i \in 1..Len(reg) |-> IF reg[i].id = rec.id THEN rec ELSE reg[i]]
    ELSE Append(reg, rec)

\* a registry that stores the record as the caller gave it
AddToolAsGiven(reg, tool, t) == MapSet(reg, tool)

\* a registry that stores every record it is given under a key of its own
AddToolUnderNewKey(reg, tool, t) == Append(reg, [tool EXCEPT !.lastSeen = t])

\* addTool: stores a copy of the record stamped with the current time
AddTool(reg, tool, t) == MapSet(reg, [tool EXCEPT !.lastSeen = t])

\* as NeedsRefresh, but a registry is stale from the interval on
NeedsRefreshAtInterval(last, t) ==
    IF last = NoDate THEN TRUE ELSE t - last >= ScanInterval

\* needsRefresh
NeedsRefresh(last, t) ==
    IF last = NoDate THEN TRUE ELSE t - last > ScanInterval

-----------------------------------------------------------------------------
(* BlueskyScanner: the feed *)

Namespace == "social.catalog."

\* A post of the feed: post.uri, post.record.text (hasText is FALSE when the
\* record carries no text, and text.match then throws), post.author.did
PostPool == {
    [uri |-> "at://1", hasText |-> TRUE, did |-> "did:a",
     text |-> "try social.catalog.giphy"],
    [uri |-> "at://2", hasText |-> TRUE, did |-> "did:b",
     text |-> "Install giphy, social.catalog.giphy and uninstall maps"],
    [uri |-> "at://3", hasText |-> FALSE, did |-> "did:b", text |-> ""] }

\* sequences of at most n posts
PostSeqs(n) == UNION {[1..k -> PostPool] : k \in 0..n}

\* What agent.api.app.bsky.feed.searchPosts gives: a rejection, or posts
FeedResponses ==
    {[ok |-> FALSE, posts |-> <<>>]} \cup {[ok |-> TRUE, posts |-> ps] : ps \in PostSeqs(MaxPosts)}

\* text.match(/social\.catalog\.[a-zA-Z0-9_-]+/g): the matches from index i on
RECURSIVE ToolPatternMatches(_, _)
ToolPatternMatches(text, i) ==
    IF i > Len(text) THEN <<>>
    ELSE IF IncludesAt(text, Namespace, i) /\ IsToolChar(Char(text, i + Len(Namespace)))
         THEN LET j == SkipToolChars(text, i + Len(Namespace))
              IN  <<SubSeq(text, i, j - 1)>> \o ToolPatternMatches(text, j)
         ELSE ToolPatternMatches(text, i + 1)

\* the matches of /<word>\s+([a-zA-Z0-9_-]+)/gi from index i on, each reduced
\* to its captured name; lower is text in lower case
RECURSIVE WordPatternNames(_, _, _, _)
WordPatternNames(text, lower, word, i) ==
    IF i > Len(text) THEN <<>>
    ELSE LET k == SkipSpace(text, i + Len(word))
             j == SkipToolChars(text, k)
         IN  IF IncludesAt(lower, word, i) /\ k > i + Len(word) /\ j > k
             THEN <<SubSeq(text, k, j - 1)>> \o WordPatternNames(text, lower, word, j)
             ELSE WordPatternNames(text, lower, word, i + 1)

\* text.match(/install\s+([a-zA-Z0-9_-]+)/gi), each match with its
\* "install\s+" prefix replaced away
InstallPatternNames(text, lower, i) == WordPatternNames(text, lower, "install", i)

\* extractToolMentions
ExtractToolMentions(text) ==
    LET names == InstallPatternNames(text, ToLowerCase(text), 1)
    IN  Dedupe(ToolPatternMatches(text, 1)
               \o [n \in 1..Len(names) |-> Namespace \o names[n]])

\* the mentions of each post of the pool that has a text
PostMentions == [p \in {q \in PostPool : q.hasText} |-> ExtractToolMentions(p.text)]

-----------------------------------------------------------------------------
(* BlueskyScanner: a scan *)

EmptyResult == [toolsFound |-> 0, newTools |-> <<>>, updatedTools |-> <<>>, errors |-> <<>>]

\* fetchToolLexicon: the mock lexicon
FetchToolLexicon(toolId, authorDid) ==
    [description |-> "Tool: " \o toolId,
     capabilities |-> <<"search", "media">>,
     version |-> "1.0.0",
     tags |-> <<"demo">>]

\* a scanner that takes every candidate for a new one
AlreadyCachedNever(reg, toolId) == FALSE

\* investigateTool: const existing = this.toolCache.getTool(toolId); if (existing)
AlreadyCached(reg, toolId) == HasTool(reg, toolId)

\* investigateTool on the scan state st = [reg, res] at time t
InvestigateTool(st, toolId, authorDid, t) ==
    IF AlreadyCached(st.reg, toolId)
    THEN LET existing == [GetTool(st.reg, toolId) EXCEPT !.lastSeen = t]
         IN  [reg |-> MapSet(st.reg, existing),
              res |-> [st.res EXCEPT !.updatedTools = Append(@, existing)]]
    ELSE LET toolInfo == FetchToolLexicon(toolId, authorDid)
             cachedTool == [id |-> toolId,
                            name |-> ReplaceFirst(toolId, Namespace, ""),
                            description |-> toolInfo.description,
                            author |-> authorDid,
                            repo |-> authorDid \o "/social.catalog",
                            lastSeen |-> t,
                            capabilities |-> toolInfo.capabilities,
                            version |-> toolInfo.version,
                            tags |-> toolInfo.tags]
         IN  [reg |-> st.reg,
              res |-> [st.res EXCEPT !.newTools = Append(@, cachedTool),
                                     !.toolsFound = @ + 1]]

\* the loop over the mentions of one post
RECURSIVE InvestigateAll(_, _, _, _)
InvestigateAll(st, mentions, authorDid, t) ==
    IF mentions = <<>> THEN st
    ELSE InvestigateAll(InvestigateTool(st, Head(mentions), authorDid, t),
                        Tail(mentions), authorDid, t)

\* the body of the loop over the posts: a post whose processing throws is
\* recorded in errors
ProcessPost(st, post, t) ==
    IF post.hasText
    THEN InvestigateAll(st, PostMentions[post], post.did, t)
    ELSE [st EXCEPT !.res.errors =
            Append(@, "Error processing post " \o post.uri \o ": TypeError")]

\* as ProcessPosts, but a post that throws ends the loop
RECURSIVE ProcessPostsAbort(_, _, _)
ProcessPostsAbort(st, posts, t) ==
    IF posts = <<>> THEN st
    ELSE IF Head(posts).hasText
         THEN ProcessPostsAbort(ProcessPost(st, Head(posts), t), Tail(posts), t)
         ELSE ProcessPost(st, Head(posts), t)

RECURSIVE ProcessPosts(_, _, _)
ProcessPosts(st, posts, t) ==
    IF posts = <<>> THEN st
    ELSE ProcessPosts(ProcessPost(st, Head(posts), t), Tail(posts), t)

\* scanFeedsForTools
ScanFeedsForTools(st, resp, t) ==
    IF resp.ok
    THEN ProcessPosts(st, resp.posts, t)
    ELSE [st EXCEPT !.res.errors = Append(@, "Feed scan failed: Error")]

\* as MergeNewTools, but the last discovery is left out
MergeAllButLast(reg, newTools, t) ==
    IF newTools = <<>> THEN reg
    ELSE LET RECURSIVE Go(_, _)
             Go(acc, k) == IF k >= Len(newTools) THEN acc
                           ELSE Go(AddTool(acc, newTools[k], t), k + 1)
         IN  Go(reg, 1)

\* for (const tool of result.newTools) await this.toolCache.addTool(tool)
RECURSIVE MergeNewTools(_, _, _)
MergeNewTools(reg, newTools, t) ==
    IF newTools = <<>> THEN reg
    ELSE MergeNewTools(AddTool(reg, Head(newTools), t), Tail(newTools), t)

-----------------------------------------------------------------------------
(* The scan requests: scan_for_tools at the server, and startBackgroundScan
   called on the scanner itself *)

ScanReqs == 1..MaxScanReqs

\* the users of the server; a request without a userId is of "default"
Users == {"default", "alice"}

\* the slots of the calls that are in progress at the same time
Calls == 1..MaxCalls

\* an intent that is absent
NoIntent == [type |-> "none", confidence |-> 0, toolId |-> "<undefined>",
             parameters |-> [toolName |-> "<undefined>", query |-> "<undefined>",
                             location |-> "<undefined>"],
             originalText |-> "", ulps |-> 0]

\* a result that is absent
NoResult == [success |-> FALSE, content |-> "", raised |-> FALSE]

\* a slot without a call
IdleCall == [pc |-> "idle", op |-> "none", user |-> "none", message |-> "",
             failed |-> FALSE, intent |-> NoIntent]

\* before any call has returned
NoCallAnswer == [op |-> "none", user |-> "none", message |-> "", failed |-> FALSE,
                 intent |-> NoIntent, result |-> NoResult]

NoAnswer == [kind |-> "none", outcome |-> "none"]

NoResp == [ok |-> FALSE, posts |-> <<>>]

Busy == "Scan already in progress"

\* isScanning
IsScanning == scanning

\* as ScanGuardRejects, but the flag is not looked at
ScanGuardNever == FALSE

\* startBackgroundScan: if (this.scanning) throw new Error('Scan already in progress')
ScanGuardRejects == scanning

\* as ReleaseGuard, but the flag is cleared only after a feed search that succeeded
ReleaseOnlyClean(ok) == ~ok

\* the finally block of startBackgroundScan: the value of this.scanning after
\* a scan whose feed search succeeded (ok) or failed
ReleaseGuard(ok) == FALSE

\* this.toolCache.updateLastScan()
UpdateLastScan(t) == t

\* startBackgroundScan from its entry to the await of searchPosts; a throw
\* inside the handler is caught there and answered as "Scan failed: ..."
StartBackgroundScan(r, kind) ==
    IF ScanGuardRejects
    THEN /\ scanAnswer' = [kind |-> kind,
                           outcome |-> IF kind = "handler" THEN "Scan failed: Error: " \o Busy
                                       ELSE "thrown: " \o Busy]
         /\ UNCHANGED <<scanning, scanReq>>
    ELSE /\ scanning' = TRUE
         /\ scanReq' = [scanReq EXCEPT ![r] = "fetch"]
         /\ UNCHANGED scanAnswer

\* as SkipsScan, but the age of the registry is not looked at
SkipsUnlessForced(force) == ~force

\* handleScanForTools: if (!force && !this.toolCache.needsRefresh())
SkipsScan(force) == ~force /\ ~NeedsRefresh(lastScan, now)

\* handleScanForTools
HandleScanForTools(r, force) ==
    /\ scanReq[r] = "idle"
    /\ IF IsScanning
       THEN /\ scanAnswer' = [kind |-> "handler", outcome |-> Busy]
            /\ UNCHANGED <<scanning, scanReq>>
       ELSE IF SkipsScan(force)
       THEN /\ scanAnswer' = [kind |-> "handler", outcome |-> "Cache is up to date"]
            /\ UNCHANGED <<scanning, scanReq>>
       ELSE StartBackgroundScan(r, "handler")
    /\ UNCHANGED <<tools, lastScan, now, ticks, scanResp, scanResult>>
    /\ UNCHANGED callVars

\* a call of scanner.startBackgroundScan() that does not come through the handler
CallStartBackgroundScan(r) ==
    /\ scanReq[r] = "idle"
    /\ StartBackgroundScan(r, "direct")
    /\ UNCHANGED <<tools, lastScan, now, ticks, scanResp, scanResult>>
    /\ UNCHANGED callVars

\* searchPosts settles: the rest of startBackgroundScan runs to its return
FeedResponds(r, resp) ==
    /\ scanReq[r] = "fetch"
    /\ LET st == ScanFeedsForTools([reg |-> tools, res |-> EmptyResult], resp, now)
       IN  /\ tools' = MergeNewTools(st.reg, st.res.newTools, now)
           /\ lastScan' = UpdateLastScan(now)
           /\ scanning' = ReleaseGuard(resp.ok)
           /\ scanReq' = [scanReq EXCEPT ![r] = "idle"]
           /\ scanAnswer' = [kind |-> "scan", outcome |-> "Scan complete"]
           /\ scanResp' = resp
           /\ scanResult' = st.res
    /\ UNCHANGED <<now, ticks>>
    /\ UNCHANGED callVars

\* time passes: by the scan interval exactly, then by one millisecond more,
\* and so on in turn
Tick ==
    /\ ticks < MaxTicks
    /\ now' = now + (IF ticks % 2 = 0 THEN ScanInterval ELSE 1)
    /\ ticks' = ticks + 1
    /\ UNCHANGED <<tools, lastScan, scanning, scanReq, scanAnswer, scanResp, scanResult>>
    /\ UNCHANGED callVars

Init ==
    /\ tools = <<>>
    /\ lastScan = NoDate
    /\ now = 1
    /\ ticks = 0
    /\ scanning = FALSE
    /\ scanReq = [r \in ScanReqs |-> "idle"]
    /\ scanAnswer = NoAnswer
    /\ scanResp = NoResp
    /\ scanResult = EmptyResult
    /\ installedTools = <<>>
    /\ userSessions = [u \in Users |-> <<>>]
    /\ calls = [c \in Calls |-> IdleCall]
    /\ served = 0
    /\ answer = NoCallAnswer

Next ==
    \/ \E r \in ScanReqs, force \in BOOLEAN : HandleScanForTools(r, force)
    \/ \E r \in ScanReqs : CallStartBackgroundScan(r)
    \/ \E r \in ScanReqs, resp \in FeedResponses : FeedResponds(r, resp)
    \/ Tick

Spec == Init /\ [][Next]_vars

-----------------------------------------------------------------------------
(* Properties of the scan *)

ScanInProgress == \E r \in ScanReqs : scanReq[r] = "fetch"

\* a step in which a scan returns
ScanCompletes == \E r \in ScanReqs : scanReq[r] = "fetch" /\ scanReq'[r] = "idle"

\* a step in which a scan caller is answered without a scan having run
CallerAnswered == scanAnswer' # scanAnswer /\ scanAnswer'.kind \in {"handler", "direct"}

IsBusyOutcome(o) == o \in {Busy, "thrown: " \o Busy}

ResultIds(q) == {q[i].id : i \in 1..Len(q)}

\* C1: at most one scan is in progress at any time; a scan request that
\* arrives while a scan is in progress is answered at once with 'scan already
\* in progress', starts no scan now or later (no caller moves), and leaves the
\* registry and lastScan as they were.
C1_SingleFlight ==
    /\ [](Cardinality({r \in ScanReqs : scanReq[r] = "fetch"}) <= 1)
    /\ [][ScanInProgress =>
            /\ \A r \in ScanReqs : scanReq[r] = "idle" => scanReq'[r] = "idle"
            /\ CallerAnswered =>
                  /\ IsBusyOutcome(scanAnswer'.outcome)
                  /\ UNCHANGED <<tools, lastScan, scanReq>>]_scanVars

C1_Witness ==
    /\ ScanInProgress
    /\ IsBusyOutcome(scanAnswer.outcome)
    /\ lastScan # NoDate

\* C2: when no scan is in progress the guard is released (isScanning() is
\* false), whether the scan that completed last was clean or recorded errors,
\* and a request is turned away as busy only while a scan is in progress: the
\* request that follows a completed scan is accepted.
C2_GuardReleased ==
    /\ [](~ScanInProgress => ~IsScanning)
    /\ [][ScanCompletes => ~IsScanning']_scanVars
    /\ [][(CallerAnswered /\ IsBusyOutcome(scanAnswer'.outcome)) => ScanInProgress]_scanVars

\* a scan that recorded errors has completed and the next request is running
C2_Witness ==
    /\ scanResult.errors # <<>>
    /\ lastScan # NoDate
    /\ ScanInProgress

\* C3: at the step in which a scan returns, every tool of its newTools is in
\* the registry and lastScan is the time of the return.
C3_MergedAndStamped ==
    [][ScanCompletes =>
        /\ ResultIds(scanResult'.newTools) \subseteq ResultIds(tools')
        /\ lastScan' = now
        /\ lastScan' # NoDate]_scanVars

\* a scan has returned new tools next to errors, and they are in the registry
C3_Witness ==
    /\ scanResult.newTools # <<>>
    /\ scanResult.errors # <<>>
    /\ Len(scanResult.newTools) >= 2
    /\ ResultIds(scanResult.newTools) \subseteq ResultIds(tools)
    /\ lastScan # NoDate

BadPosts(posts) == {i \in 1..Len(posts) : ~posts[i].hasText}

\* C4: the result of a completed scan holds one error for each post whose
\* processing failed, and every candidate of every other post of the response
\* was processed (it is in newTools or in updatedTools); a feed search that
\* failed leaves one error in a returned result.
C4_PartialFailure ==
    lastScan # NoDate =>
        IF scanResp.ok
        THEN /\ Len(scanResult.errors) = Cardinality(BadPosts(scanResp.posts))
             /\ \A i \in 1..Len(scanResp.posts) :
                   scanResp.posts[i].hasText =>
                       Range(PostMentions[scanResp.posts[i]]) \subseteq
                           ResultIds(scanResult.newTools) \cup ResultIds(scanResult.updatedTools)
        ELSE /\ Len(scanResult.errors) = 1
             /\ scanResult.newTools = <<>>

\* a post that failed came before a post whose candidates were investigated
C4_Witness ==
    /\ lastScan # NoDate
    /\ scanResp.ok
    /\ Len(scanResp.posts) = 2
    /\ ~scanResp.posts[1].hasText
    /\ scanResp.posts[2].hasText
    /\ scanResult.errors # <<>>
    /\ scanResult.newTools # <<>>

-----------------------------------------------------------------------------
(* Regular expressions of the classifier and the resolver *)

\* the number of white-space characters of s from index p on
SpaceRun(s, p) == SkipSpace(s, p) - p

\* (?:\s+<term>|...|$) matches at index p
TermAt(lower, p, terms) ==
    \/ p = Len(lower) + 1
    \/ /\ IsSpace(Char(lower, p))
       /\ \E t \in terms : IncludesAt(lower, t, SkipSpace(lower, p))

\* the class of "." : any character but a line terminator
IsDot(c) == c # "" /\ c # "\n"

\* the class [A-Za-z\s,]
IsLocationChar(c) == c \in CharsOf(Upper) \cup CharsOf(Lower) \cup {" ", "\t", "\n", ","}

\* is c of the class named class: "." or "[A-Za-z\s,]"
InClass(class, c) == IF class = "." THEN IsDot(c) ELSE IsLocationChar(c)

\* (CLASS+?) from index cs, followed by the terminator: the index of the last
\* character captured, the least there is, or 0
RECURSIVE LazyCapture(_, _, _, _, _)
LazyCapture(lower, cs, e, class, terms) ==
    IF e > Len(lower) \/ ~InClass(class, Char(lower, e)) THEN 0
    ELSE IF TermAt(lower, e + 1, terms) THEN e
    ELSE LazyCapture(lower, cs, e + 1, class, terms)

\* (?:of\s+)? then the capture, from index p: the optional group is tried
\* first, its \s+ from the longest run down, then the capture without it;
\* the result is <<first, last>> of the capture, or <<0, 0>>
RECURSIVE OptCapture(_, _, _, _, _, _)
OptCapture(lower, p, s2, opt, class, terms) ==
    IF opt = "" \/ s2 = 0 \/ ~IncludesAt(lower, opt, p)
    THEN LET e == LazyCapture(lower, p, p, class, terms)
         IN  IF e = 0 THEN <<0, 0>> ELSE <<p, e>>
    ELSE LET cs == p + Len(opt) + s2
             e == LazyCapture(lower, cs, cs, class, terms)
         IN  IF e # 0 THEN <<cs, e>>
             ELSE OptCapture(lower, p, s2 - 1, opt, class, terms)

\* \s+ after the keyword that ends before index k, s characters of it taken,
\* from the longest run down
RECURSIVE SpacesThenCapture(_, _, _, _, _, _)
SpacesThenCapture(lower, k, s, opt, class, terms) ==
    IF s = 0 THEN <<0, 0>>
    ELSE LET p == k + s
             m == OptCapture(lower, p, SpaceRun(lower, p + Len(opt)), opt, class, terms)
         IN  IF m # <<0, 0>> THEN m
             ELSE SpacesThenCapture(lower, k, s - 1, opt, class, terms)

\* /(?:w1|w2|...)\s+(?:<opt>\s+)?(CLASS+?)(?:\s+t1|\s+t2|...|$)/i on a text
\* whose lower case is lower: the leftmost match from index i on, as the
\* <<first, last>> indexes of group 1, or <<0, 0>>.  No keyword of words is
\* a prefix of another, so at most one of them matches at an index.
RECURSIVE KeywordCapture(_, _, _, _, _, _)
KeywordCapture(lower, i, words, opt, class, terms) ==
    IF i > Len(lower) THEN <<0, 0>>
    ELSE LET ws == {w \in words : IncludesAt(lower, w, i)}
             m == IF ws = {} THEN <<0, 0>>
                  ELSE LET w == CHOOSE x \in ws : TRUE
                       IN  SpacesThenCapture(lower, i + Len(w),
                                             SpaceRun(lower, i + Len(w)), opt, class, terms)
         IN  IF m # <<0, 0>> THEN m
             ELSE KeywordCapture(lower, i + 1, words, opt, class, terms)

\* group 1 of a match m in text, trimmed: match[1].trim()
Group1(text, m) == Trim(SubSeq(text, m[1], m[2]))

\* /(?:w1|w2|...)\s+(.+)/i : the leftmost keyword followed by white space and
\* at least one more character; group 1 runs to the end of the line
RECURSIVE KeywordRest(_, _, _)
KeywordRest(lower, i, words) ==
    IF i > Len(lower) THEN <<0, 0>>
    ELSE LET ws == {w \in words : IncludesAt(lower, w, i)}
             k == IF ws = {} THEN 0 ELSE i + Len(CHOOSE x \in ws : TRUE)
             run == IF k = 0 THEN 0 ELSE SpaceRun(lower, k)
             \* \s+ gives a character back when it has eaten the whole rest
             cs == IF k + run > Len(lower) THEN k + run - 1 ELSE k + run
             stop == IndexFrom(lower, "\n", cs)
         IN  IF k # 0 /\ run >= 1 /\ cs > k /\ IsDot(Char(lower, cs))
             THEN <<cs, IF stop = 0 THEN Len(lower) ELSE stop - 1>>
             ELSE KeywordRest(lower, i + 1, words)

\* message.replace(/<word>\s+/i, '')
RECURSIVE RemoveKeyword(_, _, _, _)
RemoveKeyword(text, lower, word, i) ==
    IF i > Len(text) THEN text
    ELSE IF IncludesAt(lower, word, i) /\ IsSpace(Char(lower, i + Len(word)))
         THEN SubSeq(text, 1, i - 1) \o SubSeq(text, SkipSpace(text, i + Len(word)), Len(text))
         ELSE RemoveKeyword(text, lower, word, i + 1)

\* /"([^"]+)"/ : the leftmost quoted, non-empty text, from index i on
RECURSIVE QuotedCapture(_, _)
QuotedCapture(text, i) ==
    IF i > Len(text) THEN <<0, 0>>
    ELSE LET j == IndexFrom(text, "\"", i + 1)
         IN  IF Char(text, i) = "\"" /\ j > i + 1 THEN <<i + 1, j - 1>>
             ELSE QuotedCapture(text, i + 1)

\* s.split(' ')
RECURSIVE Split(_, _)
Split(s, sep) ==
    LET j == IndexOf(s, sep)
    IN  IF j = 0 THEN <<s>>
        ELSE <<SubSeq(s, 1, j - 1)>> \o Split(SubSeq(s, j + Len(sep), Len(s)), sep)

-----------------------------------------------------------------------------
(* Intents.  A confidence is a number of hundredths: 0.9 is 90; ulps is the
   number of units in the last place by which the double that the program
   computed lies above the double nearest to that decimal, 0 for a literal.
   A field that is absent (undefined) holds Undefined. *)

Undefined == "<undefined>"

\* a value that is not a string and not nullish: a number, as the JSON of the
\* classifier or a caller can carry where a string is expected
ANumber == "<number>"

\* null, which like undefined and a number is not a string
Null == "<null>"

\* a string in a condition: undefined and '' are falsy
Truthy(v) == v # Undefined /\ v # ""

\* a string in a template literal
Str(v) == IF v = Undefined THEN "undefined" ELSE v

\* Record<string, any>, over the keys the resolver reads
NoParams == [toolName |-> Undefined, query |-> Undefined, location |-> Undefined]

\* { ...a, ...b }
Spread(a, b) ==
    [toolName |-> IF b.toolName # Undefined THEN b.toolName ELSE a.toolName,
     query |-> IF b.query # Undefined THEN b.query ELSE a.query,
     location |-> IF b.location # Undefined THEN b.location ELSE a.location]

\* Math.min
Min(a, b) == IF a <= b THEN a ELSE b

MkIntent(type, confidence, toolId, parameters, originalText) ==
    [type |-> type, confidence |-> confidence, toolId |-> toolId,
     parameters |-> parameters, originalText |-> originalText, ulps |-> 0]

UnknownIntent(text) == MkIntent("unknown", 0, Undefined, NoParams, text)

-----------------------------------------------------------------------------
(* AIService *)

\* What openai.chat.completions.create gives: a rejection ("error": timeout,
\* network, thrown), no content ("empty"), content that is not JSON ("text"),
\* or a JSON object ("json") with the keys of has
NoReply(kind) ==
    [kind |-> kind, has |-> {}, type |-> "", toolId |-> "", confidence |-> 0,
     parameters |-> NoParams]

JsonReply(has, type, toolId, confidence, parameters) ==
    [kind |-> "json", has |-> has, type |-> type, toolId |-> toolId,
     confidence |-> confidence, parameters |-> parameters]

\* extractQuery
ExtractQuery(message) ==
    LET gifMatch == KeywordCapture(ToLowerCase(message), 1, {"gif", "giphy"}, "of",
                                   ".", {"with", "from"})
    IN  IF gifMatch # <<0, 0>> THEN Group1(message, gifMatch) ELSE "something fun"

\* fallbackIntentAnalysis
FallbackIntentAnalysis(message) ==
    LET lowerMessage == ToLowerCase(message)
    IN  IF Includes(lowerMessage, "install")
        THEN MkIntent("install", 80, Undefined, NoParams, message)
        ELSE IF Includes(lowerMessage, "gif") \/ Includes(lowerMessage, "giphy")
        THEN MkIntent("execute", 80, Undefined, NoParams, message)
        ELSE IF Includes(lowerMessage, "list") \/ Includes(lowerMessage, "show tools")
        THEN MkIntent("list", 80, Undefined, NoParams, message)
        ELSE IF Includes(lowerMessage, "search") \/ Includes(lowerMessage, "find tools")
        THEN MkIntent("search", 80, Undefined, NoParams, message)
        ELSE MkIntent("unknown", 0, Undefined, NoParams, message)

\* parseAIResponse: parsed.type || 'unknown', parsed.confidence || 0.0,
\* parsed.parameters || {}
ParseAIResponse(response, originalMessage) ==
    MkIntent(IF "type" \in response.has /\ response.type # "" THEN response.type
             ELSE "unknown",
             IF "confidence" \in response.has THEN response.confidence ELSE 0,
             Undefined,
             IF "parameters" \in response.has THEN response.parameters ELSE NoParams,
             originalMessage)

\* analyzeIntent, once the classifier has settled with response
AnalyzeIntent(message, response) ==
    IF response.kind = "json" THEN ParseAIResponse(response, message)
    ELSE FallbackIntentAnalysis(message)

\* AIToolExecution | null
NoSelection == [some |-> FALSE, toolId |-> Undefined, parameters |-> NoParams, confidence |-> 0]

\* fallbackToolSelection
FallbackToolSelection(intent) ==
    LET lowerMessage == ToLowerCase(intent.originalText)
    IN  IF Includes(lowerMessage, "gif") \/ Includes(lowerMessage, "giphy")
        THEN [some |-> TRUE, toolId |-> "comlink.giphy",
              parameters |-> [NoParams EXCEPT !.query = ExtractQuery(lowerMessage)],
              confidence |-> 80]
        ELSE NoSelection

\* parseToolSelection
ParseToolSelection(response, intent) ==
    [some |-> TRUE,
     toolId |-> IF "toolId" \in response.has THEN response.toolId ELSE Undefined,
     parameters |-> IF "parameters" \in response.has THEN response.parameters ELSE NoParams,
     confidence |-> IF "confidence" \in response.has THEN response.confidence ELSE 0]

\* selectTool, once the classifier has settled with response
SelectTool(intent, response) ==
    IF response.kind = "json" THEN ParseToolSelection(response, intent)
    ELSE FallbackToolSelection(intent)

-----------------------------------------------------------------------------
(* ToolCache.searchTools and BlueskyScanner.searchForTool *)

DefaultLimit == 10          \* searchTools(query, limit = 10)

\* tool.tags.some(tag => tag.toLowerCase().includes(lowerQuery))
SomeTagIncludes(tool, lowerQuery) ==
    \E i \in 1..Len(tool.tags) : Includes(ToLowerCase(tool.tags[i]), lowerQuery)

\* the filter of searchTools
MatchesQuery(tool, lowerQuery) ==
    \/ Includes(ToLowerCase(tool.name), lowerQuery)
    \/ Includes(ToLowerCase(tool.description), lowerQuery)
    \/ SomeTagIncludes(tool, lowerQuery)
    \/ Includes(ToLowerCase(tool.id), lowerQuery)

\* the relevance the comparator of searchTools sorts by
Relevance(tool, lowerQuery) ==
    (IF ToLowerCase(tool.name) = lowerQuery THEN 3 ELSE 0)
    + (IF Includes(ToLowerCase(tool.description), lowerQuery) THEN 2 ELSE 0)
    + (IF SomeTagIncludes(tool, lowerQuery) THEN 1 ELSE 0)

\* the matches left in the order of the registry
InsertionOrder(results, lowerQuery, score) == results

\* results.sort(...): by relevance, highest first; the sort is stable
RECURSIVE SortByRelevance(_, _, _)
SortByRelevance(results, lowerQuery, score) ==
    IF score < 0 THEN <<>>
    ELSE LET Scored(tool) == Relevance(tool, lowerQuery) = score
         IN  SelectSeq(results, Scored) \o SortByRelevance(results, lowerQuery, score - 1)

\* a slice that keeps everything
SliceAll(q, limit) == q

\* results.slice(0, limit)
Slice(q, limit) == SubSeq(q, 1, Min(Len(q), limit))

\* searchTools
SearchTools(reg, query, limit) ==
    LET lowerQuery == ToLowerCase(query)
        Hit(tool) == MatchesQuery(tool, lowerQuery)
        results == SortByRelevance(SelectSeq(reg, Hit), lowerQuery, 6)
    IN  [tools |-> Slice(results, limit), total |-> Len(results), query |-> query]

\* the mentions of a post that searchForTool investigates
MentionsOf(post, query) ==
    LET About(toolId) == Includes(ToLowerCase(toolId), ToLowerCase(query))
    IN  SelectSeq(PostMentions[post], About)

\* the loop of searchForTool over the posts, on st = [reg, res, threw]: a post
\* without a text throws out of the loop
RECURSIVE LiveInvestigate(_, _, _, _)
LiveInvestigate(st, posts, query, t) ==
    IF posts = <<>> THEN st
    ELSE IF ~Head(posts).hasText THEN [st EXCEPT !.threw = TRUE]
    ELSE LET next == InvestigateAll([reg |-> st.reg, res |-> st.res],
                                    MentionsOf(Head(posts), query), Head(posts).did, t)
         IN  LiveInvestigate([reg |-> next.reg, res |-> next.res, threw |-> FALSE],
                             Tail(posts), query, t)

\* searchForTool after a cache miss, once searchPosts has settled with resp:
\* the registry it leaves and the tools it returns
LiveSearch(reg, query, resp, t) ==
    IF ~resp.ok THEN [reg |-> reg, found |-> <<>>]
    ELSE LET st == LiveInvestigate([reg |-> reg, res |-> EmptyResult, threw |-> FALSE],
                                   resp.posts, query, t)
         IN  IF st.threw THEN [reg |-> st.reg, found |-> <<>>]
             ELSE [reg |-> MergeNewTools(st.reg, st.res.newTools, t),
                   found |-> st.res.newTools]

-----------------------------------------------------------------------------
(* AIOrchestrator: classification *)

\* the installed set is a Set<string>: its members in insertion order
SetHas(set, x) == \E i \in 1..Len(set) : set[i] = x

SetAdd(set, x) == IF SetHas(set, x) THEN set ELSE Append(set, x)

SetDelete(set, x) == LET Other(y) == y # x IN SelectSeq(set, Other)

\* extractToolName: null is Undefined
ExtractToolName(message) ==
    LET match == KeywordRest(ToLowerCase(message), 1, {"install"})
    IN  IF match # <<0, 0>> THEN Group1(message, match) ELSE Undefined

\* processMessage, lines 71-76: the AI intent as an Intent
IntentOfAI(aiIntent) ==
    MkIntent(aiIntent.type, aiIntent.confidence, Undefined, aiIntent.parameters,
             aiIntent.originalText)

\* processMessage, lines 81-85
WithSelection(intent, toolExecution) ==
    IF toolExecution.some
    THEN [intent EXCEPT !.toolId = toolExecution.toolId,
                        !.parameters = Spread(@, toolExecution.parameters),
                        !.confidence = Min(@, toolExecution.confidence)]
    ELSE intent

\* processMessage, lines 89-95
WithToolName(intent, message) ==
    LET toolName == ExtractToolName(message)
    IN  IF intent.type = "install" /\ Truthy(toolName)
        THEN [intent EXCEPT !.toolId = "comlink." \o toolName,
                            !.parameters = Spread(@, [NoParams EXCEPT !.toolName = toolName])]
        ELSE intent

IsInstallIntent(message) ==
    StartsWith(message, "install ") \/ Includes(message, "add ") \/ Includes(message, "get ")

\* the tool name of parseInstallIntent and parseUninstallIntent
ParsedToolName(message, word) ==
    LET lower == ToLowerCase(message)
        names == WordPatternNames(message, lower, word, 1)
    IN  IF names # <<>> THEN names[1] ELSE Trim(RemoveKeyword(message, lower, word, 1))

ParseInstallIntent(message) ==
    LET toolName == ParsedToolName(message, "install")
    IN  MkIntent("install", 90, "comlink." \o toolName,
                 [NoParams EXCEPT !.toolName = toolName], message)

IsUninstallIntent(message) ==
    \/ StartsWith(message, "uninstall ")
    \/ Includes(message, "remove ")
    \/ Includes(message, "delete ")

ParseUninstallIntent(message) ==
    LET toolName == ParsedToolName(message, "uninstall")
    IN  MkIntent("uninstall", 90, "comlink." \o toolName,
                 [NoParams EXCEPT !.toolName = toolName], message)

IsListIntent(message) ==
    \/ Includes(message, "list")
    \/ Includes(message, "show")
    \/ Includes(message, "what") /\ Includes(message, "installed")

ParseListIntent(message) == MkIntent("list", 80, Undefined, NoParams, message)

IsSearchIntent(message) ==
    Includes(message, "search") \/ Includes(message, "find") \/ Includes(message, "discover")

ParseSearchIntent(message) ==
    LET searchMatch == KeywordRest(ToLowerCase(message), 1, {"search", "find", "discover"})
        query == IF searchMatch # <<0, 0>> THEN Group1(message, searchMatch) ELSE ""
    IN  MkIntent("search", 80, Undefined, [NoParams EXCEPT !.query = query], message)

IsHelpIntent(message) ==
    Includes(message, "help") \/ Includes(message, "?") \/ Includes(message, "commands")

ParseHelpIntent(message) == MkIntent("help", 90, Undefined, NoParams, message)

\* A double that is a sum of 0.4, 0.2, 0.1 and 0.05: h is the sum in
\* hundredths, ulps the number of units in the last place by which the double
\* lies above the double nearest to h/100 (below it when negative).  0.2 + 0.1
\* is 0.30000000000000004, the double next above 0.3: [h |-> 30, ulps |-> 1].
Float(h) == [h |-> h, ulps |-> 0]

\* x + inc/100 in IEEE 754 double arithmetic, rounding to nearest: the rows
\* <<x.h, x.ulps, inc, ulps of the sum>> in which x or the sum is not the
\* double nearest to its decimal, for the sums that calculateToolMatchConfidence
\* forms of at most one 0.4, three 0.2, three 0.1 and eight 0.05, in this
\* order.  The other sums of this range are the nearest doubles.
AddTable ==
    {<<10, 0, 5, 1>>, <<15, 1, 5, 0>>, <<20, 0, 10, 1>>, <<30, 1, 5, 1>>,
     <<30, 1, 10, 0>>, <<35, 0, 5, -1>>, <<35, 1, 5, 0>>, <<40, -1, 5, -1>>,
     <<40, 0, 20, 1>>, <<45, -1, 5, -1>>, <<50, -1, 5, -1>>,
     <<55, -1, 5, 0>>, <<55, 0, 5, 1>>, <<60, 1, 5, 1>>, <<60, 1, 10, 1>>,
     <<60, 1, 20, 0>>, <<65, 0, 5, 1>>, <<65, 1, 5, 2>>, <<70, 1, 5, 1>>,
     <<70, 1, 10, 0>>, <<70, 2, 5, 2>>, <<75, 1, 5, 1>>, <<75, 2, 5, 2>>,
     <<80, 0, 5, 1>>, <<80, 1, 5, 2>>, <<80, 2, 5, 3>>, <<85, 1, 5, 1>>,
     <<85, 2, 5, 2>>, <<85, 3, 5, 3>>, <<90, 0, 5, 1>>, <<90, 1, 5, 2>>,
     <<90, 2, 5, 3>>, <<90, 3, 5, 4>>, <<95, 1, 5, 0>>, <<95, 2, 5, 1>>,
     <<95, 3, 5, 1>>, <<95, 4, 5, 2>>, <<100, 1, 5, 1>>, <<105, 1, 5, 1>>,
     <<110, 0, 5, 1>>, <<110, 0, 10, 1>>, <<110, 1, 5, 2>>, <<115, 1, 5, 1>>,
     <<115, 2, 5, 2>>, <<120, 1, 5, 1>>, <<120, 1, 10, 1>>, <<125, 1, 5, 1>>,
     <<130, 1, 5, 1>>, <<135, 1, 5, 2>>, <<140, 2, 5, 2>>, <<145, 2, 5, 2>>,
     <<150, 2, 5, 2>>, <<155, 2, 5, 2>>, <<160, 2, 5, 3>>, <<165, 3, 5, 3>>}

\* confidence += inc/100
FloatAdd(x, inc) ==
    LET rows == {r \in AddTable : r[1] = x.h /\ r[2] = x.ulps /\ r[3] = inc}
    IN  [h |-> x.h + inc, ulps |-> IF rows = {} THEN 0 ELSE (CHOOSE r \in rows : TRUE)[4]]

\* confidence += inc/100, n times over
RECURSIVE FloatAddTimes(_, _, _)
FloatAddTimes(x, inc, n) ==
    IF n = 0 THEN x ELSE FloatAddTimes(FloatAdd(x, inc), inc, n - 1)

\* x > y
FloatGreater(x, y) == x.h > y.h \/ (x.h = y.h /\ x.ulps > y.ulps)

\* Math.min(x, y)
FloatMin(x, y) == IF FloatGreater(x, y) THEN y ELSE x

\* what calculateToolMatchConfidence counts: does the name occur in the
\* message, and how many capabilities, tags and words of the description of
\* more than 3 characters do
MatchCounts(message, tool) ==
    LET lowerMessage == ToLowerCase(message)
        Occurs(word) == Truthy(word) /\ Includes(lowerMessage, ToLowerCase(word))
        LongWord(word) == Len(word) > 3 /\ Includes(lowerMessage, word)
        descWords == IF Truthy(tool.description)
                     THEN Split(ToLowerCase(tool.description), " ") ELSE <<>>
    IN  [name |-> IF Occurs(tool.name) THEN 1 ELSE 0,
         capabilities |-> Len(SelectSeq(tool.capabilities, Occurs)),
         tags |-> Len(SelectSeq(tool.tags, Occurs)),
         words |-> Len(SelectSeq(descWords, LongWord))]

\* calculateToolMatchConfidence: the sum as the program accumulates it
CalculateToolMatchConfidence(message, tool) ==
    LET n == MatchCounts(message, tool)
        byName == FloatAddTimes(Float(0), 40, n.name)
        byCapabilities == FloatAddTimes(byName, 20, n.capabilities)
        byTags == FloatAddTimes(byCapabilities, 10, n.tags)
    IN  FloatMin(FloatAddTimes(byTags, 5, n.words), Float(100))

\* array.includes
ArrayIncludes(q, x) == \E i \in 1..Len(q) : q[i] = x

\* extractParameters
ExtractParameters(message, tool, parameters) ==
    LET lower == ToLowerCase(message)
        quoted == QuotedCapture(message, 1)
        queryMatch == IF quoted # <<0, 0>> THEN quoted
                      ELSE KeywordCapture(lower, 1, {"search", "find", "get"}, "",
                                          ".", {"with", "from"})
        locationMatch == KeywordCapture(lower, 1, {"in", "at", "to", "from"}, "",
                                        "[A-Za-z\\s,]", {"with", "from", "to"})
        mediaMatch == KeywordCapture(lower, 1, {"gif", "image", "picture", "photo"}, "of",
                                     ".", {"with", "from"})
        p1 == IF ArrayIncludes(tool.capabilities, "search") /\ queryMatch # <<0, 0>>
              THEN [parameters EXCEPT !.query = Group1(message, queryMatch)]
              ELSE parameters
        p2 == IF /\ \/ ArrayIncludes(tool.capabilities, "location")
                    \/ ArrayIncludes(tool.tags, "weather")
                    \/ ArrayIncludes(tool.tags, "maps")
                 /\ locationMatch # <<0, 0>>
              THEN [p1 EXCEPT !.location = Group1(message, locationMatch)]
              ELSE p1
    IN  IF /\ ArrayIncludes(tool.capabilities, "media") \/ ArrayIncludes(tool.tags, "gif")
           /\ mediaMatch # <<0, 0>>
        THEN [p2 EXCEPT !.query = Group1(message, mediaMatch)]
        ELSE p2

\* a loop that keeps the last installed tool that has a record
RECURSIVE LastMatch(_, _, _, _, _)
LastMatch(message, installed, reg, best, bestConfidence) ==
    IF installed = <<>> THEN [tool |-> best, confidence |-> bestConfidence]
    ELSE LET tool == GetTool(reg, Head(installed))
         IN  IF tool # NoTool
             THEN LastMatch(message, Tail(installed), reg, tool,
                            CalculateToolMatchConfidence(message, tool))
             ELSE LastMatch(message, Tail(installed), reg, best, bestConfidence)

\* the loop of parseExecutionIntent over the installed tools: the best match
\* so far is best, with confidence bestConfidence
RECURSIVE BestMatch(_, _, _, _, _)
BestMatch(message, installed, reg, best, bestConfidence) ==
    IF installed = <<>> THEN [tool |-> best, confidence |-> bestConfidence]
    ELSE LET tool == GetTool(reg, Head(installed))
             confidence == IF tool = NoTool THEN Float(0)
                           ELSE CalculateToolMatchConfidence(message, tool)
         IN  IF tool # NoTool /\ FloatGreater(confidence, bestConfidence)
             THEN BestMatch(message, Tail(installed), reg, tool, confidence)
             ELSE BestMatch(message, Tail(installed), reg, best, bestConfidence)

\* parseExecutionIntent
ParseExecutionIntent(message, installed, reg) ==
    LET lowerMessage == ToLowerCase(message)
        m == BestMatch(message, installed, reg, NoTool, Float(0))
        gifMatch == KeywordCapture(lowerMessage, 1, {"gif", "giphy"}, "of",
                                   ".", {"with", "from"})
        query == IF gifMatch # <<0, 0>> THEN Group1(message, gifMatch) ELSE "something fun"
    IN  IF m.tool # NoTool /\ FloatGreater(m.confidence, Float(30))
        THEN [MkIntent("execute", m.confidence.h, m.tool.id,
                       ExtractParameters(message, m.tool, NoParams), message)
                 EXCEPT !.ulps = m.confidence.ulps]
        ELSE IF Includes(lowerMessage, "gif") \/ Includes(lowerMessage, "giphy")
        THEN MkIntent("execute", 70, "comlink.giphy",
                      [NoParams EXCEPT !.query = query], message)
        ELSE UnknownIntent(message)

\* fallbackProcessMessage
FallbackProcessMessage(message, installed, reg) ==
    LET lowerMessage == Trim(ToLowerCase(message))
        executionIntent == ParseExecutionIntent(message, installed, reg)
    IN  IF message = "" THEN UnknownIntent("undefined")
        ELSE IF IsInstallIntent(lowerMessage) THEN ParseInstallIntent(message)
        ELSE IF IsUninstallIntent(lowerMessage) THEN ParseUninstallIntent(message)
        ELSE IF IsListIntent(lowerMessage) THEN ParseListIntent(message)
        ELSE IF IsSearchIntent(lowerMessage) THEN ParseSearchIntent(message)
        ELSE IF IsHelpIntent(lowerMessage) THEN ParseHelpIntent(message)
        ELSE IF FloatGreater([h |-> executionIntent.confidence,
                              ulps |-> executionIntent.ulps], Float(30))
        THEN executionIntent
        ELSE UnknownIntent(message)

-----------------------------------------------------------------------------
(* AIOrchestrator: execution.  A content is written without its leading
   satellite sign, a list bullet as "-", and JSON.stringify of the
   parameters with the keys in a fixed order. *)

Result(success, content) == [success |-> success, content |-> content, raised |-> FALSE]

\* the promise of executeIntent rejects with error: the handlers are async and
\* executeIntent returns their promises without awaiting them, so that its
\* try/catch (lines 174-200) is left before they settle
Raises(error) == [success |-> FALSE, content |-> error, raised |-> TRUE]

\* tools.map(tool => `- ${tool.name} (${tool.id}) - ${tool.description}`).join('\n')
RECURSIVE JoinLines(_)
JoinLines(lines) ==
    IF lines = <<>> THEN ""
    ELSE IF Len(lines) = 1 THEN lines[1]
    ELSE lines[1] \o "\n" \o JoinLines(Tail(lines))

ToolLine(tool) == "- " \o tool.name \o " (" \o tool.id \o ") - " \o tool.description

\* JSON.stringify(intent.parameters)
Stringify(parameters) ==
    LET Pair(key, v) == IF v = Undefined THEN <<>>
                        ELSE <<"\"" \o key \o "\":\"" \o v \o "\"">>
        pairs == Pair("toolName", parameters.toolName) \o Pair("query", parameters.query)
                 \o Pair("location", parameters.location)
        RECURSIVE Commas(_)
        Commas(q) == IF q = <<>> THEN ""
                     ELSE IF Len(q) = 1 THEN q[1]
                     ELSE q[1] \o "," \o Commas(Tail(q))
    IN  "{" \o Commas(pairs) \o "}"

\* executeInstall: is the tool name one it searches for
HasToolName(intent) == Truthy(intent.parameters.toolName)

NoToolName == Result(FALSE, "Error: No tool name specified. Usage: \"install [tool_name]\"")

\* executeInstall, once searchForTool has returned found
InstallResult(intent, found) ==
    IF found = <<>>
    THEN Result(FALSE, "Couldn't find a tool called \"" \o intent.parameters.toolName
                       \o "\". Try searching for available tools.")
    ELSE Result(TRUE, "Installed " \o found[1].name \o " (" \o found[1].id \o ") - "
                      \o found[1].description)

\* executeUninstall
ExecuteUninstall(intent, installed) ==
    LET toolName == Str(intent.parameters.toolName)
        toolId == "comlink." \o toolName
    IN  IF SetHas(installed, toolId)
        THEN Result(TRUE, "Uninstalled " \o toolName)
        ELSE Result(FALSE, toolName \o " is not installed.")

\* executeGiphySearch
ExecuteGiphySearch(intent) ==
    LET searchQuery == IF Truthy(intent.parameters.query) THEN intent.parameters.query
                       ELSE "something fun"
    IN  Result(TRUE, "Searching for GIFs: \"" \o searchQuery \o "\"")

BuiltIn == "comlink.giphy"

\* as NotInstalled, but every identifier passes
NotInstalledNever(toolId, installed) == FALSE

\* executeTool, line 547: !toolId || !this.installedTools.has(toolId)
NotInstalled(toolId, installed) == ~Truthy(toolId) \/ ~SetHas(installed, toolId)

\* executeTool
ExecuteTool(intent, installed, reg) ==
    LET toolId == intent.toolId
        tool == GetTool(reg, toolId)
    IN  IF toolId = BuiltIn THEN ExecuteGiphySearch(intent)
        ELSE IF NotInstalled(toolId, installed) /\ toolId = ANumber
        THEN Raises("TypeError: toolId?.replace is not a function")
        ELSE IF NotInstalled(toolId, installed)
        THEN Result(FALSE, "Tool not installed. Try \"install "
                           \o ReplaceFirst(Str(toolId), "comlink.", "") \o "\" first.")
        ELSE IF tool = NoTool
        THEN Result(FALSE, "Tool " \o toolId \o " not found in cache.")
        ELSE Result(TRUE, "Executed " \o tool.name \o " with parameters: "
                          \o Stringify(intent.parameters))

\* executeSearch: query || 'tools'
SearchQuery(intent) ==
    IF Truthy(intent.parameters.query) THEN intent.parameters.query ELSE "tools"

\* executeSearch, once searchForTool has returned found
SearchResult(intent, found) ==
    IF found = <<>>
    THEN Result(TRUE, "No tools found matching \"" \o SearchQuery(intent) \o "\".")
    ELSE Result(TRUE, "Found " \o ToString(Len(found)) \o " tools:\n"
                      \o JoinLines([i \in 1..Len(found) |-> ToolLine(found[i])]))

\* executeList
ExecuteList(installed, reg) ==
    LET Line(id) == IF HasTool(reg, id)
                    THEN "- " \o GetTool(reg, id).name \o " (" \o id \o ")"
                    ELSE "- " \o id
    IN  IF installed = <<>>
        THEN Result(TRUE, "No tools installed. Try \"install giphy\" to get started!")
        ELSE Result(TRUE, "Installed tools:\n"
                          \o JoinLines([i \in 1..Len(installed) |-> Line(installed[i])]))

\* executeHelp
ExecuteHelp == Result(TRUE, "Available commands: install <tool>, uninstall <tool>, list, search <query>, help")

NotSure == Result(FALSE, "I'm not sure what you want to do. Try 'help' for available commands.")

\* the query executeIntent hands to scanner.searchForTool, for the intents
\* that search
LookupQuery(intent) ==
    IF intent.type = "install" THEN intent.parameters.toolName ELSE SearchQuery(intent)

\* does executeIntent call scanner.searchForTool
Searches(intent) ==
    (intent.type = "install" /\ HasToolName(intent)) \/ intent.type = "search"

\* executeIntent for an intent that searches, once searchForTool has returned
\* found
ExecuteFound(intent, found) ==
    IF intent.type = "install" THEN InstallResult(intent, found)
    ELSE SearchResult(intent, found)

\* executeIntent for an intent that does not search
ExecuteDirect(intent, installed, reg) ==
    CASE intent.type = "install" -> NoToolName
      [] intent.type = "uninstall" -> ExecuteUninstall(intent, installed)
      [] intent.type = "execute" -> ExecuteTool(intent, installed, reg)
      [] intent.type = "list" -> ExecuteList(installed, reg)
      [] intent.type = "help" -> ExecuteHelp
      [] OTHER -> NotSure

\* as InstalledAfterExecute, but a successful install adds the identifier and
\* a successful uninstall removes it
InstalledSynced(installed, intent, result) ==
    IF intent.type = "install" /\ result.success THEN SetAdd(installed, intent.toolId)
    ELSE IF intent.type = "uninstall" /\ result.success
    THEN SetDelete(installed, "comlink." \o Str(intent.parameters.toolName))
    ELSE installed

\* this.installedTools after executeIntent(intent) has returned result:
\* executeInstall and executeUninstall leave the set to the caller's session
\* (lines 479, 502)
InstalledAfterExecute(installed, intent, result) == installed

-----------------------------------------------------------------------------
(* The inputs of the calls *)

Everything == {"type", "toolId", "confidence", "parameters"}

\* the ways the classifier fails: the call rejects (timeout, thrown error),
\* the reply has no content, the content is not JSON
Failures == {NoReply("error"), NoReply("empty"), NoReply("text")}

\* what the classifier settles with when asked for the intent
AnalyzeResponses ==
    Failures \cup
    {JsonReply({}, "", "", 0, NoParams),
     JsonReply(Everything, "uninstall", "", 90, [NoParams EXCEPT !.toolName = "giphy"]),
     JsonReply(Everything, "execute", "", 90, [NoParams EXCEPT !.query = "dogs"]),
     JsonReply({"type", "confidence"}, "help", "", 100, NoParams),
     JsonReply({"type", "confidence"}, "help", "", 150, NoParams)}

\* what the classifier settles with when asked for the tool
SelectResponses ==
    {NoReply("error"),
     JsonReply({}, "", "", 0, NoParams),
     JsonReply(Everything, "", "comlink.weather", 70, [NoParams EXCEPT !.location = "Paris"]),
     JsonReply(Everything, "", "social.catalog.giphy", 100, NoParams),
     JsonReply(Everything, "", ANumber, 90, NoParams)}

\* the messages classified
Messages ==
    {"", "install giphy", "uninstall giphy", "show me a gif of cats", "list",
     "search giphy", "search tools", "help", "giphy cats", "hello"}

\* the messages sent to the server
ServedMessages == {"install giphy", "uninstall giphy", "show me a gif of cats"}

\* what the classifier settles with, at the server
ServedAnalyzeResponses ==
    {NoReply("error"),
     JsonReply(Everything, "uninstall", "", 90, [NoParams EXCEPT !.toolName = "giphy"]),
     JsonReply(Everything, "execute", "", 90, NoParams)}

ServedSelectResponses ==
    {NoReply("error"), JsonReply(Everything, "", "social.catalog.giphy", 100, NoParams)}

\* the tool names given to install_tool and uninstall_tool
ToolNames == {"giphy"}

\* the identifiers handed to setInstalledTools
IdPool == {"comlink.giphy", "social.catalog.giphy"}

\* the arrays of at most n different identifiers
InstalledSets(n) ==
    {q \in UNION {[1..k -> IdPool] : k \in 0..n} :
        \A i, j \in 1..Len(q) : i # j => q[i] # q[j]}

-----------------------------------------------------------------------------
(* The calls: AIOrchestrator used directly, and the handlers of the server *)

\* updateUserSession
UpdateUserSession(sessions, userId, toolId, install) ==
    [sessions EXCEPT ![userId] = IF install THEN SetAdd(@, toolId) ELSE SetDelete(@, toolId)]

\* sessions that follow the intent whatever the result
SessionsWhateverResult(sessions, userId, intent, result) ==
    IF intent.type = "install" THEN UpdateUserSession(sessions, userId, intent.toolId, TRUE)
    ELSE IF intent.type = "uninstall"
    THEN UpdateUserSession(sessions, userId, intent.toolId, FALSE)
    ELSE sessions

\* handleProcessMessage, lines 216-225: the sessions after the intent was
\* executed with result
SessionsAfter(sessions, userId, intent, result) ==
    IF intent.type = "install" /\ result.success
    THEN UpdateUserSession(sessions, userId, intent.toolId, TRUE)
    ELSE IF intent.type = "uninstall" /\ result.success
    THEN UpdateUserSession(sessions, userId, intent.toolId, FALSE)
    ELSE sessions

\* a call of slot c returns result for intent: executeIntent to its caller,
\* or handleProcessMessage after its lines 216-225
Returns(c, op, user, message, failed, intent, result) ==
    /\ calls' = [calls EXCEPT ![c] = IdleCall]
    /\ installedTools' = InstalledAfterExecute(installedTools, intent, result)
    /\ userSessions' = IF op = "process_message"
                       THEN SessionsAfter(userSessions, user, intent, result)
                       ELSE userSessions
    /\ answer' = [op |-> op, user |-> user, message |-> message, failed |-> failed,
                  intent |-> intent, result |-> result]

\* executeIntent(intent) up to its return, or to the await of searchPosts in
\* scanner.searchForTool when the registry has no tool for the query
Executes(c, op, user, message, failed, intent) ==
    LET cached == IF Searches(intent)
                  THEN SearchTools(tools, LookupQuery(intent), DefaultLimit).tools
                  ELSE <<>>
    IN  IF Searches(intent) /\ cached = <<>>
        THEN /\ calls' = [calls EXCEPT ![c] =
                            [pc |-> "lookup", op |-> op, user |-> user, message |-> message,
                             failed |-> failed, intent |-> intent]]
             /\ answer' = NoCallAnswer
             /\ UNCHANGED <<installedTools, userSessions>>
        ELSE Returns(c, op, user, message, failed, intent,
                     IF Searches(intent) THEN ExecuteFound(intent, cached)
                     ELSE ExecuteDirect(intent, installedTools, tools))

\* processMessage has its intent and returns it: to its caller, or to
\* handleProcessMessage, which goes on to execute it
Classified(c, failed, intent) ==
    IF calls[c].op = "processMessage"
    THEN /\ calls' = [calls EXCEPT ![c] = IdleCall]
         /\ answer' = [op |-> "processMessage", user |-> "none",
                       message |-> calls[c].message, failed |-> failed,
                       intent |-> intent, result |-> NoResult]
         /\ UNCHANGED <<installedTools, userSessions>>
    ELSE Executes(c, calls[c].op, calls[c].user, calls[c].message, failed, intent)

\* orchestrator.setInstalledTools(toolIds)
SetInstalledTools(toolIds) ==
    /\ installedTools' = toolIds
    /\ UNCHANGED <<scanVars, userSessions, calls, served, answer>>

\* typeof message
TypeOf(message) ==
    IF message = Undefined THEN "undefined"
    ELSE IF message = Null THEN "object"
    ELSE IF message = ANumber THEN "number"
    ELSE "string"

\* a validation that lets every message through
NothingInvalid(message) == FALSE

\* !message || typeof message !== 'string'
InvalidMessage(message) ==
    message \in {"", Undefined, Null} \/ TypeOf(message) # "string"

\* orchestrator.processMessage(message), up to the await of analyzeIntent
ProcessMessage(c, message) ==
    /\ calls[c].pc = "idle"
    /\ IF InvalidMessage(message)
       THEN /\ answer' = [op |-> "processMessage", user |-> "none", message |-> message,
                          failed |-> FALSE,
                          intent |-> UnknownIntent(IF message = ANumber THEN message
                                                   ELSE "undefined"),
                          result |-> NoResult]
            /\ UNCHANGED calls
       ELSE /\ calls' = [calls EXCEPT ![c] =
                            [pc |-> "analyze", op |-> "processMessage", user |-> "none",
                             message |-> message, failed |-> FALSE, intent |-> NoIntent]]
            /\ answer' = NoCallAnswer
    /\ UNCHANGED <<scanVars, installedTools, userSessions, served>>

\* the classifier settles the await of analyzeIntent with response:
\* processMessage runs on to the await of selectTool, or to its return
AnalyzeSettles(c, response) ==
    /\ calls[c].pc = "analyze"
    /\ LET intent == IntentOfAI(AnalyzeIntent(calls[c].message, response))
           failed == response.kind # "json"
       IN  IF intent.type = "execute"
           THEN /\ calls' = [calls EXCEPT ![c].pc = "select", ![c].failed = failed,
                                          ![c].intent = intent]
                /\ UNCHANGED <<installedTools, userSessions, answer>>
           ELSE Classified(c, failed, WithToolName(intent, calls[c].message))
    /\ UNCHANGED <<scanVars, served>>

\* the classifier settles the await of selectTool with response
SelectSettles(c, response) ==
    /\ calls[c].pc = "select"
    /\ Classified(c, calls[c].failed /\ response.kind # "json",
                  WithToolName(WithSelection(calls[c].intent,
                                             SelectTool(calls[c].intent, response)),
                               calls[c].message))
    /\ UNCHANGED <<scanVars, served>>

\* orchestrator.executeIntent(intent), of the intent processMessage returned
ExecuteIntent(c) ==
    /\ calls[c].pc = "idle"
    /\ answer.op = "processMessage"
    /\ Executes(c, "executeIntent", "none", answer.message, answer.failed, answer.intent)
    /\ UNCHANGED <<scanVars, served>>

\* handleInstallTool, once searchForTool has returned found
InstallToolReturns(c, user, toolName, found) ==
    /\ calls' = [calls EXCEPT ![c] = IdleCall]
    /\ IF found = <<>>
       THEN /\ answer' = [op |-> "install_tool", user |-> user, message |-> toolName,
                          failed |-> FALSE, intent |-> NoIntent,
                          result |-> Result(FALSE, "Couldn't find a tool called \""
                                       \o toolName \o "\". Try searching for available tools.")]
            /\ UNCHANGED <<installedTools, userSessions>>
       ELSE /\ installedTools' = SetAdd(installedTools, found[1].id)
            /\ userSessions' = UpdateUserSession(userSessions, user, found[1].id, TRUE)
            /\ answer' = [op |-> "install_tool", user |-> user, message |-> toolName,
                          failed |-> FALSE, intent |-> NoIntent,
                          result |-> Result(TRUE, "Installed " \o found[1].name \o " ("
                                       \o found[1].id \o ") - " \o found[1].description)]

\* searchPosts settles the await of searchForTool with resp: the call runs on
\* to its return
LookupSettles(c, resp) ==
    /\ calls[c].pc = "lookup"
    /\ LET call == calls[c]
           query == IF call.op = "install_tool" THEN call.message
                    ELSE LookupQuery(call.intent)
           live == LiveSearch(tools, query, resp, now)
       IN  /\ tools' = live.reg
           /\ IF call.op = "install_tool"
              THEN InstallToolReturns(c, call.user, call.message, live.found)
              ELSE Returns(c, call.op, call.user, call.message, call.failed, call.intent,
                           ExecuteFound(call.intent, live.found))
    /\ UNCHANGED <<lastScan, now, ticks, scanning, scanReq, scanAnswer, scanResp,
                   scanResult, served>>

\* handleProcessMessage, up to its return for an invalid message or to the
\* await of analyzeIntent
HandleProcessMessage(c, userId, message) ==
    /\ calls[c].pc = "idle"
    /\ served < MaxServed
    /\ served' = served + 1
    /\ IF InvalidMessage(message)
       THEN /\ answer' = [op |-> "process_message", user |-> userId, message |-> message,
                          failed |-> FALSE, intent |-> NoIntent,
                          result |-> Result(FALSE, "Error: Invalid message parameter. Received: "
                                                      \o TypeOf(message))]
            /\ UNCHANGED <<installedTools, calls>>
       ELSE /\ installedTools' = userSessions[userId]
            /\ calls' = [calls EXCEPT ![c] =
                            [pc |-> "analyze", op |-> "process_message", user |-> userId,
                             message |-> message, failed |-> FALSE, intent |-> NoIntent]]
            /\ answer' = NoCallAnswer
    /\ UNCHANGED <<scanVars, userSessions>>

\* handleInstallTool, up to its return or to the await of searchPosts
HandleInstallTool(c, userId, toolName) ==
    /\ calls[c].pc = "idle"
    /\ served < MaxServed
    /\ served' = served + 1
    /\ LET cached == SearchTools(tools, toolName, DefaultLimit).tools
       IN  IF cached = <<>>
           THEN /\ calls' = [calls EXCEPT ![c] =
                               [pc |-> "lookup", op |-> "install_tool", user |-> userId,
                                message |-> toolName, failed |-> FALSE, intent |-> NoIntent]]
                /\ answer' = NoCallAnswer
                /\ UNCHANGED <<installedTools, userSessions>>
           ELSE InstallToolReturns(c, userId, toolName, cached)
    /\ UNCHANGED scanVars

\* handleUninstallTool
HandleUninstallTool(userId, toolName) ==
    /\ served < MaxServed
    /\ served' = served + 1
    /\ LET toolId == Namespace \o toolName
       IN  /\ installedTools' = SetDelete(installedTools, toolId)
           /\ userSessions' = UpdateUserSession(userSessions, userId, toolId, FALSE)
    /\ answer' = [op |-> "uninstall_tool", user |-> userId, message |-> toolName,
                  failed |-> FALSE, intent |-> NoIntent,
                  result |-> Result(TRUE, "Uninstalled " \o toolName)]
    /\ UNCHANGED <<scanVars, calls>>

\* AIOrchestrator used by one caller
NextResolve ==
    \/ \E toolIds \in InstalledSets(MaxInstalled) : SetInstalledTools(toolIds)
    \/ \E message \in Messages : ProcessMessage(1, message)
    \/ \E response \in AnalyzeResponses : AnalyzeSettles(1, response)
    \/ \E response \in SelectResponses : SelectSettles(1, response)
    \/ ExecuteIntent(1)
    \/ \E resp \in FeedResponses : LookupSettles(1, resp)

SpecResolve == Init /\ [][NextResolve]_vars

\* the server, its requests interleaved at the awaits
NextServe ==
    \/ \E c \in Calls, u \in Users, message \in ServedMessages :
            HandleProcessMessage(c, u, message)
    \/ \E c \in Calls, u \in Users, toolName \in ToolNames : HandleInstallTool(c, u, toolName)
    \/ \E u \in Users, toolName \in ToolNames : HandleUninstallTool(u, toolName)
    \/ \E c \in Calls, response \in ServedAnalyzeResponses : AnalyzeSettles(c, response)
    \/ \E c \in Calls, response \in ServedSelectResponses : SelectSettles(c, response)
    \/ \E c \in Calls, resp \in FeedResponses : LookupSettles(c, resp)

SpecServe == Init /\ [][NextServe]_vars

-----------------------------------------------------------------------------
(* Properties of classification and execution *)

\* a step in which processMessage returns its intent
ClassifyReturns == answer'.op = "processMessage" /\ answer' # answer

\* a step in which executeIntent returns its result
ExecuteReturns == answer'.op = "executeIntent" /\ answer' # answer

\* a step of executeIntent: it returns, or it suspends on the feed search
ExecuteSteps ==
    \/ ExecuteReturns
    \/ \E c \in Calls : calls[c].pc = "idle" /\ calls'[c].pc = "lookup"
                        /\ calls'[c].op = "executeIntent"

\* C5: when every call of the classifier fails, processMessage returns the
\* intent of the pattern rules of fallbackProcessMessage, taken in the order
\* install, uninstall, list, search, help, best installed tool, unknown: the
\* type of the first rule that fires, with confidence 0.9 for install,
\* uninstall and help and 0.8 for list and search.
C5_PatternRulesOnFailure ==
    [][(ClassifyReturns /\ answer'.failed) =>
         LET rules == FallbackProcessMessage(answer'.message, installedTools, tools)
         IN  /\ answer'.intent.type = rules.type
             /\ answer'.intent.type \in {"install", "uninstall", "help"}
                    => answer'.intent.confidence = 90
             /\ answer'.intent.type \in {"list", "search"}
                    => answer'.intent.confidence = 80]_vars

\* C6: with the classifier failing, "install giphy" is classified as an
\* install intent of confidence 0.9, identifier "comlink.giphy" and parameter
\* toolName = "giphy".
C6_InstallGiphy ==
    [][(ClassifyReturns /\ answer'.failed /\ answer'.message = "install giphy") =>
         /\ answer'.intent.type = "install"
         /\ answer'.intent.confidence = 90
         /\ answer'.intent.toolId = "comlink.giphy"
         /\ answer'.intent.parameters.toolName = "giphy"]_vars

\* C7: with the classifier failing and nothing installed, "show me a gif of
\* cats" is classified as an execute intent of confidence 0.7 for the
\* built-in comlink.giphy, with parameter query = "cats".
C7_GifOfCats ==
    [][(/\ ClassifyReturns
        /\ answer'.failed
        /\ answer'.message = "show me a gif of cats"
        /\ installedTools = <<>>) =>
         /\ answer'.intent.type = "execute"
         /\ answer'.intent.confidence = 70
         /\ answer'.intent.toolId = BuiltIn
         /\ answer'.intent.parameters.query = "cats"]_vars

C9_OnlyInstalledCallable ==
    (answer.op = "process_message" /\ answer.intent.type = "execute" /\ answer.result.success)
        => SetHas(userSessions[answer.user], answer.intent.toolId)

\* C10: no step of executeIntent changes the installed set of the
\* orchestrator, whatever the type of the intent and whatever the result.
C10_ExecuteKeepsInstalled ==
    [][ExecuteSteps => installedTools' = installedTools]_vars

\* an uninstall was executed with success, and the identifier is still in
\* the installed set
C10_Witness ==
    /\ answer.op = "executeIntent"
    /\ answer.intent.type = "uninstall"
    /\ answer.result.success
    /\ SetHas(installedTools, "comlink." \o answer.intent.parameters.toolName)

-----------------------------------------------------------------------------
(* Properties of the sessions of the server *)

\* C11: the installed set of a user changes only in the step that answers a
\* request of that user with a successful install or uninstall: a step that
\* answers with success = false, or a process_message whose intent is neither
\* install nor uninstall, leaves every installed set as it was.
C11_SessionsChangeOnSuccess ==
    [][userSessions' # userSessions =>
         /\ answer'.result.success
         /\ \/ answer'.op \in {"install_tool", "uninstall_tool"}
            \/ /\ answer'.op = "process_message"
               /\ answer'.intent.type \in {"install", "uninstall"}
         /\ \A u \in Users \ {answer'.user} : userSessions'[u] = userSessions[u]]_vars

\* a user with an installed tool got success = false for an uninstall intent,
\* and still has the tool
C11_Witness ==
    /\ answer.op = "process_message"
    /\ answer.intent.type = "uninstall"
    /\ ~answer.result.success
    /\ userSessions[answer.user] # <<>>

\* C12: uninstalling what is not installed gives a failed result: an
\* uninstall intent for a tool that is not in the installed set of the
\* orchestrator is answered with success = false, and so is an uninstall_tool
\* request of a user whose installed set does not hold the tool.
C12_UninstallAbsentFails ==
    [][/\ (/\ answer'.op = "process_message"
           /\ answer' # answer
           /\ answer'.intent.type = "uninstall"
           /\ ~SetHas(installedTools, "comlink." \o Str(answer'.intent.parameters.toolName)))
          => ~answer'.result.success
       /\ (/\ answer'.op = "uninstall_tool"
           /\ served' # served
           /\ ~SetHas(userSessions[answer'.user], Namespace \o answer'.message))
          => ~answer'.result.success]_vars

\* the feed search of scanner.searchForTool fails while executeIntent waits
\* for it
LookupFails ==
    \E c \in Calls :
        /\ calls[c].pc = "lookup"
        /\ calls[c].op = "executeIntent"
        /\ LookupSettles(c, [ok |-> FALSE, posts |-> <<>>])

\* C13: executeIntent never raises: its promise settles with a result for
\* every intent that processMessage returns, with success = false for an
\* unknown intent; and when the lookup of an install or a search fails, the
\* result has success = false.
C13_NeverRaises ==
    [][/\ ExecuteReturns => ~answer'.result.raised
       /\ (ExecuteReturns /\ answer'.intent.type = "unknown") => ~answer'.result.success
       /\ (ExecuteReturns /\ LookupFails) => ~answer'.result.success]_vars

-----------------------------------------------------------------------------
(* ToolCache used directly: the values its callers can hand it *)

IsString(v) == v \notin {Undefined, Null, ANumber}

\* an array field that is absent
NoList == <<Undefined>>

\* the lastSeen a caller supplies: the epoch, or a date far ahead
SuppliedDates == {0, 2000000000}

\* the records handed to addTool, up to their lastSeen
ToolPool == {
    [id |-> "comlink.giphy", name |-> "giphy",
     description |-> "Search and share animated pictures",
     author |-> "did:plc:test-author", repo |-> "test-repo", lastSeen |-> 0,
     capabilities |-> <<"search", "media">>, version |-> "1.0.0", tags |-> <<"fun">>],
    [id |-> "comlink.giphy", name |-> "giphy",
     description |-> "Updated description",
     author |-> "did:plc:test-author", repo |-> "test-repo", lastSeen |-> 0,
     capabilities |-> <<"search", "media">>, version |-> "1.0.0", tags |-> <<"fun">>],
    [id |-> "comlink.gifs", name |-> "gifs",
     description |-> "GIFs from Giphy",
     author |-> "did:plc:test-author", repo |-> "test-repo", lastSeen |-> 0,
     capabilities |-> <<"media">>, version |-> "1.0.0", tags |-> <<"giphy">>],
    [id |-> "comlink.weather", name |-> "weather",
     description |-> "Get weather forecasts and current conditions",
     author |-> "did:plc:test-author", repo |-> "test-repo", lastSeen |-> 0,
     capabilities |-> <<"search", "location">>, version |-> "1.0.0",
     tags |-> <<"weather", "forecast">>],
    [id |-> "comlink.broken", name |-> Undefined, description |-> Undefined,
     author |-> "did:plc:test", repo |-> "test", lastSeen |-> 0,
     capabilities |-> NoList, version |-> "1.0.0", tags |-> NoList] }

\* the identifiers handed to getTool and removeTool
CacheIds == {tool.id : tool \in ToolPool} \cup {"nonexistent"}

\* the queries and the limits handed to searchTools
Queries == {"giphy", "GIPHY", "search", "co", "broken", "", Undefined, Null, ANumber}
Limits == {1, DefaultLimit}

-----------------------------------------------------------------------------
(* ToolCache used directly: its methods *)

\* a record of the registry on which the loop of searchTools throws: name,
\* description and tags are dereferenced for every record
Unreadable(tool) ==
    tool.name = Undefined \/ tool.description = Undefined \/ tool.tags = NoList

\* searchTools throws a TypeError: on query.toLowerCase(), or in its loop
SearchThrows(reg, query) ==
    ~IsString(query) \/ \E i \in 1..Len(reg) : Unreadable(reg[i])

\* what a call of searchTools(query, limit) comes to
SearchOutcome(reg, query, limit) ==
    IF SearchThrows(reg, query)
    THEN [threw |-> TRUE, tools |-> <<>>, total |-> 0, query |-> query, limit |-> limit]
    ELSE LET found == SearchTools(reg, query, limit)
         IN  [threw |-> FALSE, tools |-> found.tools, total |-> found.total,
              query |-> found.query, limit |-> limit]

\* Map.delete: the registry without id, and whether id was a key
RemoveTool(reg, id) ==
    LET Others(tool) == tool.id # id
    IN  [reg |-> SelectSeq(reg, Others), deleted |-> HasTool(reg, id)]

\* what a call of the registry returned to its caller
CacheAnswer(op, arg, result) ==
    [op |-> op, user |-> "none", message |-> arg, failed |-> FALSE, intent |-> NoIntent,
     result |-> result]

\* toolCache.addTool(tool)
CallAddTool(tool) ==
    /\ HasTool(tools, tool.id) \/ Len(tools) < MaxTools
    /\ tools' = AddTool(tools, tool, now)
    /\ answer' = CacheAnswer("addTool", tool.id, [tool |-> tool])
    /\ UNCHANGED <<lastScan, now, ticks, scanning, scanReq, scanAnswer, scanResp, scanResult,
                   installedTools, userSessions, calls, served>>

\* toolCache.getTool(id)
CallGetTool(id) ==
    /\ answer' = CacheAnswer("getTool", id, [tool |-> GetTool(tools, id)])
    /\ UNCHANGED <<scanVars, installedTools, userSessions, calls, served>>

\* toolCache.removeTool(id)
CallRemoveTool(id) ==
    /\ tools' = RemoveTool(tools, id).reg
    /\ answer' = CacheAnswer("removeTool", id, [deleted |-> RemoveTool(tools, id).deleted])
    /\ UNCHANGED <<lastScan, now, ticks, scanning, scanReq, scanAnswer, scanResp, scanResult,
                   installedTools, userSessions, calls, served>>

\* toolCache.searchTools(query, limit)
CallSearchTools(query, limit) ==
    /\ answer' = CacheAnswer("searchTools", query, SearchOutcome(tools, query, limit))
    /\ UNCHANGED <<scanVars, installedTools, userSessions, calls, served>>

\* ToolCache used by one caller, the clock advancing
NextCache ==
    \/ \E tool \in ToolPool, seen \in SuppliedDates : CallAddTool([tool EXCEPT !.lastSeen = seen])
    \/ \E id \in CacheIds : CallGetTool(id)
    \/ \E id \in CacheIds : CallRemoveTool(id)
    \/ \E query \in Queries, limit \in Limits : CallSearchTools(query, limit)
    \/ Tick

SpecCache == Init /\ [][NextCache]_vars

-----------------------------------------------------------------------------
(* Properties of ToolCache *)

\* the last call was of searchTools, which returned or threw: every other
\* call of the registry replaces answer, so tools is still what it searched
Searched == answer.op = "searchTools"

\* a step in which addTool returns
AddReturns == answer'.op = "addTool" /\ (answer' # answer \/ tools' # tools)

\* the place of the record of identifier id in the array q, 0 when it has none
Position(q, id) ==
    IF \E i \in 1..Len(q) : q[i].id = id
    THEN CHOOSE i \in 1..Len(q) : q[i].id = id /\ \A j \in 1..(i - 1) : q[j].id # id
    ELSE 0

\* two records that differ at most in lastSeen
SameData(a, b) == [a EXCEPT !.lastSeen = NoDate] = [b EXCEPT !.lastSeen = NoDate]

\* C14: for a query that is empty, absent (undefined, null) or not a string,
\* searchTools does not throw and returns tools = [] and total = 0, whatever
\* the registry holds.
C14_DegenerateQueryFindsNothing ==
    (Searched /\ (answer.message = "" \/ ~IsString(answer.message))) =>
      /\ ~answer.result.threw
      /\ answer.result.tools = <<>>
      /\ answer.result.total = 0

\* C15: searchTools does not throw when the registry holds a record whose
\* name, description, tags or capabilities are absent, and such a record
\* still counts as a match when its identifier contains the query.
C15_AbsentFieldsTolerated ==
    (/\ Searched
     /\ IsString(answer.message)
     /\ \E i \in 1..Len(tools) : Unreadable(tools[i])) =>
      /\ ~answer.result.threw
      /\ \A i \in 1..Len(tools) :
            (/\ Unreadable(tools[i])
             /\ Includes(ToLowerCase(tools[i].id), ToLowerCase(answer.message)))
            => answer.result.total >= 1

\* C16: when searchTools returns a tool B whose description contains the
\* query and whose name is not the query, every tool A of the registry whose
\* name is the query is returned too, at a place before B, whatever the order
\* of insertion and whatever the tags.
C16_NameBeforeDescription ==
    (Searched /\ ~answer.result.threw) =>
      LET lowerQuery == ToLowerCase(answer.message)
          found == answer.result.tools
      IN  \A a, b \in 1..Len(tools) :
             (/\ ToLowerCase(tools[a].name) = lowerQuery
              /\ ToLowerCase(tools[b].name) # lowerQuery
              /\ Includes(ToLowerCase(tools[b].description), lowerQuery)
              /\ Position(found, tools[b].id) > 0)
             => /\ Position(found, tools[a].id) > 0
                /\ Position(found, tools[a].id) < Position(found, tools[b].id)

C18_CapabilitiesMatch ==
    (/\ Searched
     /\ ~answer.result.threw
     /\ answer.result.limit >= Len(tools)) =>
      \A i \in 1..Len(tools) :
         ArrayIncludes(tools[i].capabilities, answer.message)
         => Position(answer.result.tools, tools[i].id) > 0

\* C19: after addTool(record) at time t, getTool(record.id) gives a record of
\* that identifier whose lastSeen is at least t, whatever lastSeen the caller
\* put in the record.
C19_LastSeenStamped ==
    [][AddReturns =>
         LET got == GetTool(tools', answer'.message)
         IN  /\ got.id = answer'.message
             /\ got.lastSeen >= now]_vars

\* a record handed over with the epoch as its lastSeen is held with the time
\* of the call, after the clock has advanced
C19_Witness ==
    /\ answer.op = "addTool"
    /\ answer.result.tool.lastSeen = 0
    /\ now > 1
    /\ GetTool(tools, answer.message).lastSeen = now

\* C20: addTool of a record that the registry already holds with the same
\* data leaves the identifiers, their order, the total and every field of
\* every record as they were, lastSeen excepted.
C20_UpsertIdempotent ==
    [][(/\ AddReturns
        /\ HasTool(tools, answer'.message)
        /\ SameData(GetTool(tools, answer'.message), answer'.result.tool)) =>
         /\ Len(tools') = Len(tools)
         /\ \A i \in 1..Len(tools) : SameData(tools'[i], tools[i])]_vars

\* the record inserted first carries a later stamp than the record inserted
\* after it: it was handed to addTool again, with the only data it has
C20_Witness ==
    /\ answer.op = "addTool"
    /\ answer.message = "comlink.weather"
    /\ Len(tools) = 2
    /\ tools[1].id = "comlink.weather"
    /\ tools[1].lastSeen > tools[2].lastSeen

-----------------------------------------------------------------------------
(* ToolCache persisted: export, import, clear and the scan stamp *)

\* clear(): the registry and lastScan afterwards
Clear == [tools |-> <<>>, lastScan |-> NoDate]

\* getStats()
GetStats(reg, last) == [total |-> Len(reg), lastScan |-> last]

\* export(): Array.from(this.tools.values()) and lastScan
Export(reg, last) == [tools |-> [i \in 1..Len(reg) |-> reg[i]], lastScan |-> last]

\* the loop of import(): this.tools.set(tool.id, tool) for each record of the
\* snapshot, as it is
RECURSIVE ImportTools(_, _)
ImportTools(reg, snapshot) ==
    IF snapshot = <<>> THEN reg
    ELSE ImportTools(MapSet(reg, Head(snapshot)), Tail(snapshot))

\* an import that reads the snapshot from its end
ImportNewestFirst(data) ==
    [tools |-> ImportTools(Clear.tools, [i \in 1..Len(data.tools) |->
                                            data.tools[Len(data.tools) + 1 - i]]),
     lastScan |-> data.lastScan]

\* import(data): the registry and lastScan afterwards
\* an import that does not clear the registry first
ImportWithoutClear(data) ==
    [tools |-> ImportTools(tools, data.tools), lastScan |-> data.lastScan]

Import(data) ==
    [tools |-> ImportTools(Clear.tools, data.tools), lastScan |-> data.lastScan]

\* toolCache.updateLastScan()
CallUpdateLastScan ==
    /\ lastScan' = UpdateLastScan(now)
    /\ UNCHANGED <<tools, now, ticks, scanning, scanReq, scanAnswer, scanResp, scanResult>>
    /\ UNCHANGED callVars

\* toolCache.clear()
CallClear ==
    /\ tools' = Clear.tools
    /\ lastScan' = Clear.lastScan
    /\ UNCHANGED <<now, ticks, scanning, scanReq, scanAnswer, scanResp, scanResult>>
    /\ UNCHANGED callVars

\* toolCache.export(): the caller holds the snapshot, and for comparison the
\* stats and the registry of that moment
CallExport ==
    /\ answer' = CacheAnswer("export", "", [data |-> Export(tools, lastScan),
                                            stats |-> GetStats(tools, lastScan),
                                            reg |-> tools])
    /\ UNCHANGED <<scanVars, installedTools, userSessions, calls, served>>

\* toolCache.import(data) of the snapshot the caller holds, into the registry
\* as it is by now
CallImport ==
    /\ answer.op = "export"
    /\ tools' = Import(answer.result.data).tools
    /\ lastScan' = Import(answer.result.data).lastScan
    /\ answer' = CacheAnswer("import", "", answer.result)
    /\ UNCHANGED <<now, ticks, scanning, scanReq, scanAnswer, scanResp, scanResult,
                   installedTools, userSessions, calls, served>>

\* a ToolCache that is filled, stamped, cleared, exported and imported
NextPersist ==
    \/ \E tool \in ToolPool, seen \in SuppliedDates : CallAddTool([tool EXCEPT !.lastSeen = seen])
    \/ CallUpdateLastScan
    \/ CallClear
    \/ CallExport
    \/ CallImport
    \/ Tick

SpecPersist == Init /\ [][NextPersist]_vars

\* a step in which import returns
ImportReturns == answer.op = "export" /\ answer'.op = "import"

\* C21: after import of an exported snapshot, into the registry it was taken
\* from or into an empty one, searchTools gives for every query and limit what
\* it gave when the snapshot was taken (the same tools in the same order, the
\* same total, or the same throw), and getStats gives the same total and
\* lastScan.
C21_ExportImportRoundTrip ==
    [][ImportReturns =>
         /\ \A query \in Queries, limit \in Limits :
               SearchOutcome(tools', query, limit) = SearchOutcome(answer.result.reg, query, limit)
         /\ GetStats(tools', lastScan') = answer.result.stats]_vars

\* a snapshot of two records and a scan stamp has been imported at a later
\* time, and the registry holds what the snapshot was taken from
C21_Witness ==
    /\ answer.op = "import"
    /\ Len(answer.result.reg) = 2
    /\ answer.result.stats.lastScan # NoDate
    /\ answer.result.stats.lastScan < now
    /\ tools = answer.result.reg
    /\ lastScan = answer.result.stats.lastScan

-----------------------------------------------------------------------------
(* Properties of scan_for_tools and needsRefresh *)

\* the registry was scanned at most the scan interval ago
Fresh == lastScan # NoDate /\ now - lastScan <= ScanInterval

\* C22: scan_for_tools without force on a registry that needs no refresh
\* performs no scan: the registry and lastScan stay as they are and no
\* request to the feed is made; with force, or on a registry that needs a
\* refresh, a scan is started and awaits the feed, unless a scan is running
\* already.
C22_ScanOnlyWhenStaleOrForced ==
    [][\A r \in ScanReqs, force \in BOOLEAN :
          HandleScanForTools(r, force) =>
             IF ~force /\ Fresh
             THEN UNCHANGED <<tools, lastScan, scanning, scanReq>>
             ELSE IF scanning
                  THEN UNCHANGED <<tools, lastScan, scanning, scanReq>>
                  ELSE scanning' /\ scanReq' = [scanReq EXCEPT ![r] = "fetch"]]_vars

\* a request without force was answered from a registry that holds tools and
\* was scanned less than the interval ago, and no scan is running
C22_Witness ==
    /\ scanAnswer.outcome = "Cache is up to date"
    /\ Fresh
    /\ now > lastScan
    /\ tools # <<>>
    /\ ~ScanInProgress

\* C23: needsRefresh() is true exactly when lastScan is absent or lies more
\* than the scan interval in the past; it is true for a new registry and
\* after clear(), and false right after updateLastScan().
C23_NeedsRefresh ==
    /\ NeedsRefresh(lastScan, now)
    /\ [](NeedsRefresh(lastScan, now) <=> (lastScan = NoDate \/ now - lastScan > ScanInterval))
    /\ [][CallClear => NeedsRefresh(lastScan', now')]_vars
    /\ [][CallUpdateLastScan => ~NeedsRefresh(lastScan', now')]_vars

\* the registry was stamped exactly the scan interval ago
C23_Witness ==
    /\ lastScan # NoDate
    /\ now - lastScan = ScanInterval
    /\ tools # <<>>

-----------------------------------------------------------------------------
(* Properties of scanner.searchForTool *)

\* C24: searchForTool consults the registry first: when the registry search
\* gives records, it returns them without a request to the feed and leaves
\* the registry as it is; when it gives none, it asks the feed, and every
\* record it then returns is in the registry when it returns.
C24_RegistryFirst ==
    [][/\ (ExecuteIntent(1) /\ Searches(answer.intent)) =>
             LET cached == SearchTools(tools, LookupQuery(answer.intent), DefaultLimit).tools
             IN  /\ tools' = tools
                 /\ IF cached # <<>>
                    THEN /\ calls'[1].pc = "idle"
                         /\ answer'.result = ExecuteFound(answer.intent, cached)
                    ELSE calls'[1].pc = "lookup"
       /\ \A resp \in FeedResponses :
             LookupSettles(1, resp) =>
                LET found == LiveSearch(tools, LookupQuery(calls[1].intent), resp, now).found
                IN  /\ \A i \in 1..Len(found) : HasTool(tools', found[i].id)
                    /\ answer'.result = ExecuteFound(calls[1].intent, found)]_vars

\* an install has been answered with a record of the registry, which a live
\* lookup had put there
C24_Witness ==
    /\ answer.op = "executeIntent"
    /\ answer.intent.type = "install"
    /\ answer.result.success
    /\ HasTool(tools, "social.catalog.giphy")

-----------------------------------------------------------------------------
(* Properties of the candidates of a scan *)

\* the identifiers mentioned in the posts of a feed response that have a text
MentionedIn(resp) ==
    UNION {Range(PostMentions[resp.posts[i]]) :
              i \in {j \in 1..Len(resp.posts) : resp.posts[j].hasText}}

\* C25: a candidate of a scan whose identifier is in the registry already is
\* reported in updatedTools and not in newTools, has its lastSeen set to the
\* time of the scan, and is not counted in toolsFound, which counts the
\* entries of newTools: the lexicon is fetched for those only.
C25_KnownCandidateUpdated ==
    [][ScanCompletes =>
         /\ scanResult'.toolsFound = Len(scanResult'.newTools)
         /\ \A id \in ResultIds(tools) \cap MentionedIn(scanResp') :
               /\ id \in ResultIds(scanResult'.updatedTools)
               /\ id \notin ResultIds(scanResult'.newTools)
               /\ GetTool(tools', id).lastSeen = now
               /\ SameData(GetTool(tools', id), GetTool(tools, id))]_scanVars

\* a scan has found, at a later time, a tool that an earlier scan had put in
\* the registry
C25_Witness ==
    /\ scanResult.updatedTools # <<>>
    /\ scanResult.toolsFound = 0
    /\ ~ScanInProgress
    /\ now > 1
    /\ \A i \in 1..Len(scanResult.updatedTools) :
          /\ scanResult.updatedTools[i].lastSeen = now
          /\ GetTool(tools, scanResult.updatedTools[i].id).lastSeen = now

\* C30: an identifier that several posts of one scan mention, and that the
\* registry did not hold when the scan started, is in newTools at most once
\* and is counted once in toolsFound.
C30_DiscoveriesDeduplicated ==
    /\ \A i, j \in 1..Len(scanResult.newTools) :
          i # j => scanResult.newTools[i].id # scanResult.newTools[j].id
    /\ scanResult.toolsFound = Cardinality(ResultIds(scanResult.newTools))

-----------------------------------------------------------------------------
(* The external calls: a scan and a classification awaiting their replies *)

\* the replies of the feed to the scan, of one post at most
LiveFeedResponses == {resp \in FeedResponses : Len(resp.posts) <= 1}

\* the replies of the classifier
LiveClassifierResponses ==
    {NoReply("error"), JsonReply(Everything, "execute", "", 90, NoParams)}

\* a scan request and a processMessage call, each suspended on its external
\* call until that call settles.  The feed search (bluesky-scanner.ts 71) and
\* the classifier calls (ai-service.ts 44, 82) are awaited as they are: no
\* step of the program settles or abandons them.
NextLive ==
    \/ \E force \in BOOLEAN : HandleScanForTools(1, force)
    \/ \E resp \in LiveFeedResponses : FeedResponds(1, resp)
    \/ \E message \in ServedMessages : ProcessMessage(1, message)
    \/ \E response \in LiveClassifierResponses : AnalyzeSettles(1, response)
    \/ \E response \in LiveClassifierResponses : SelectSettles(1, response)
    \/ Tick

\* time passes whatever else happens; whether an external call settles is up
\* to the service called
SpecLive == Init /\ [][NextLive]_vars /\ WF_vars(Tick)

\* processMessage awaits the classifier
Classifying == \E c \in Calls : calls[c].pc \in {"analyze", "select"}

\* C26: no scan and no classification blocks forever: a scan that has started
\* completes and releases the guard, and a processMessage call that awaits
\* the classifier returns its intent, also when the external call they wait
\* for never responds.
C26_NothingBlocksForever ==
    /\ ScanInProgress ~> (~ScanInProgress /\ ~IsScanning)
    /\ Classifying ~> ~Classifying

-----------------------------------------------------------------------------
(* process_message requests of two users, interleaved at the awaits *)

\* each user has one request in progress at most: the first slot is that of
\* "default", the second that of "alice"
SlotUser(c) == IF c = 1 THEN "default" ELSE "alice"

NextRace ==
    \/ \E c \in {1, 2}, message \in ServedMessages :
            HandleProcessMessage(c, SlotUser(c), message)
    \/ \E c \in {1, 2}, response \in ServedAnalyzeResponses : AnalyzeSettles(c, response)
    \/ \E c \in {1, 2}, response \in ServedSelectResponses : SelectSettles(c, response)
    \/ \E c \in {1, 2}, resp \in FeedResponses : LookupSettles(c, resp)

SpecRace == Init /\ [][NextRace]_vars

\* a step in which the process_message request of slot c resumes after the
\* classifier has settled: the intent is built, and executed unless the
\* classifier is asked again
Resumes(c) ==
    /\ calls[c].op = "process_message"
    /\ calls[c].pc \in {"analyze", "select"}
    /\ calls'[c] # calls[c]

\* C27: whenever a process_message request resumes to classify and execute,
\* the installed set the orchestrator consults is the session of the user of
\* that request, as it was when the request started (a session changes only
\* when a request of its user returns, and a user has one request at a
\* time): the request of another user does not change it.
C27_OwnInstalledSet ==
    [][\A c \in {1, 2} : Resumes(c) => installedTools = userSessions[calls[c].user]]_vars

-----------------------------------------------------------------------------
(* Properties of the sessions and the registry *)

\* the identifiers that a step adds to the session of user u
AddedTo(u) == {id \in Range(userSessions'[u]) : ~SetHas(userSessions[u], id)}

\* C28: every identifier that an install adds to the installed set of a
\* user, through process_message or through install_tool, is the identifier
\* of a record that the registry holds at that moment (the record the lookup
\* returned).
C28_InstalledIsRegistered ==
    [][\A u \in Users : \A id \in AddedTo(u) : HasTool(tools', id)]_vars

\* the identifiers under which an install of the tool called name is kept in
\* a session: by process_message, by install_tool
IdsOf(name) == {"comlink." \o name, Namespace \o name}

\* a step in which an uninstall for a user reports success: of uninstall_tool,
\* or of process_message with an uninstall intent
UninstallSucceeds ==
    \/ answer'.op = "uninstall_tool" /\ served' # served /\ answer'.result.success
    \/ /\ answer'.op = "process_message"
       /\ answer' # answer
       /\ answer'.intent.type = "uninstall"
       /\ answer'.result.success

\* the name of the tool that the request answered in this step is about
AnsweredName ==
    IF answer'.op = "uninstall_tool" THEN answer'.message
    ELSE Str(answer'.intent.parameters.toolName)

\* C29: install followed by uninstall is a round trip on the session: when
\* the session of a user holds the one identifier that an install of the
\* tool called N has added, an uninstall of N for that user that reports
\* success, through process_message or through uninstall_tool, removes that
\* identifier and nothing else.
C29_InstallUninstallRoundTrip ==
    [][UninstallSucceeds =>
         LET u == answer'.user
             had == {id \in IdsOf(AnsweredName) : SetHas(userSessions[u], id)}
         IN  Cardinality(had) = 1 =>
                userSessions'[u] = SetDelete(userSessions[u], CHOOSE id \in had : TRUE)]_vars

-----------------------------------------------------------------------------
(* Properties of the confidence *)

\* C31: every intent that processMessage returns has a confidence between 0
\* and 1 (0 and 100 hundredths), whatever confidence the classifier reports
\* for the intent and for the tool, and on the fallback path.
C31_ConfidenceInRange ==
    answer.op = "processMessage" =>
        answer.intent.confidence >= 0 /\ answer.intent.confidence <= 100

-----------------------------------------------------------------------------
(* The tool-match rule: parseExecutionIntent on a registry and an installed
   set *)

\* the records of the registry the rule is tried on
MatchPool == {
    [id |-> "comlink.giphy", name |-> "giphy",
     description |-> "Search and share animated pictures",
     author |-> "did:plc:test-author", repo |-> "test-repo", lastSeen |-> 0,
     capabilities |-> <<"search", "media">>, version |-> "1.0.0", tags |-> <<"fun">>],
    [id |-> "comlink.stickers", name |-> "stickers",
     description |-> "Animated stickers",
     author |-> "did:plc:test-author", repo |-> "test-repo", lastSeen |-> 0,
     capabilities |-> <<"media">>, version |-> "1.0.0", tags |-> <<"fun">>],
    [id |-> "comlink.weather", name |-> "weather",
     description |-> "Get weather forecasts and current conditions",
     author |-> "did:plc:test-author", repo |-> "test-repo", lastSeen |-> 0,
     capabilities |-> <<"search", "location">>, version |-> "1.0.0",
     tags |-> <<"weather", "forecast">>] }

\* the installed sets: at most two identifiers, of which one may have no record
MatchIds == {tool.id : tool \in MatchPool} \cup {"comlink.absent"}

MatchInstalled ==
    {<<>>} \cup {<<a>> : a \in MatchIds}
           \cup ({<<a, b>> : a, b \in MatchIds} \ {<<a, a>> : a \in MatchIds})

\* the messages: none of them fires a rule that comes before the tool match
MatchMessages ==
    {"a fun media thing", "weather in Paris", "fun", "media", "hello", "giphy cats"}

\* parseExecutionIntent(message); the answer keeps the installed set and the
\* registry the rule has read
CallParseExecutionIntent(message) ==
    /\ answer' = [op |-> "parseExecutionIntent", user |-> "none", message |-> message,
                  failed |-> TRUE,
                  intent |-> ParseExecutionIntent(message, installedTools, tools),
                  result |-> [installed |-> installedTools, reg |-> tools]]
    /\ UNCHANGED <<scanVars, installedTools, userSessions, calls, served>>

NextMatch ==
    \/ \E tool \in MatchPool : CallAddTool(tool)
    \/ \E toolIds \in MatchInstalled : SetInstalledTools(toolIds)
    \/ \E message \in MatchMessages : CallParseExecutionIntent(message)

SpecMatch == Init /\ [][NextMatch]_vars

\* parseExecutionIntent has returned
Matched == answer.op = "parseExecutionIntent"

\* the message holds one of the keywords of the rule for the built-in tool
HasMediaKeyword(message) ==
    Includes(ToLowerCase(message), "gif") \/ Includes(ToLowerCase(message), "giphy")

\* the score of a tool for a message, in exact hundredths
ExactScore(message, tool) ==
    LET n == MatchCounts(message, tool)
    IN  Min(100, 40 * n.name + 20 * n.capabilities + 10 * n.tags + 5 * n.words)

\* the places of the installed set whose identifier has a record
Candidates ==
    {i \in 1..Len(answer.result.installed) :
        HasTool(answer.result.reg, answer.result.installed[i])}

\* the record of the tool at place i of the installed set
CandidateAt(i) == GetTool(answer.result.reg, answer.result.installed[i])

\* C32: the confidence of an installed tool for a message is min(1.0, 0.4 for
\* the name + 0.2 for each capability + 0.1 for each tag + 0.05 for each word
\* of the description of more than 3 characters that occurs in the message),
\* and the tool-match rule gives an execute intent only when the best score
\* is more than 0.3: a best score of 0.3 or less is not accepted.
C32_ScoreAndThreshold ==
    Matched =>
      /\ \A i \in Candidates :
            CalculateToolMatchConfidence(answer.message, CandidateAt(i)).h
                = ExactScore(answer.message, CandidateAt(i))
      /\ (answer.intent.type = "execute" /\ ~HasMediaKeyword(answer.message)) =>
            \E i \in Candidates :
               ExactScore(answer.message, CandidateAt(i)) > 30

\* the confidence of the tool at place i of the installed set, as computed
ConfidenceAt(i) ==
    CalculateToolMatchConfidence(answer.message, CandidateAt(i))

\* C33: the tool-match rule selects, among the installed identifiers that
\* have a record in the registry, the tool whose computed confidence is the
\* highest, the first of them in the order of the installed set when several
\* have it; identifiers without a record are passed over; when that
\* confidence is more than 0.3 the intent returned is an execute intent with
\* the identifier of that tool and that confidence.
C33_BestInstalledTool ==
    (Matched /\ Candidates # {}) =>
       LET best == CHOOSE i \in Candidates :
                      /\ \A j \in Candidates : ~FloatGreater(ConfidenceAt(j), ConfidenceAt(i))
                      /\ \A j \in Candidates : j < i => FloatGreater(ConfidenceAt(i), ConfidenceAt(j))
       IN  FloatGreater(ConfidenceAt(best), Float(30)) =>
              /\ answer.intent.type = "execute"
              /\ answer.intent.toolId = answer.result.installed[best]
              /\ answer.intent.toolId = CandidateAt(best).id
              /\ answer.intent.confidence = ConfidenceAt(best).h
              /\ answer.intent.ulps = ConfidenceAt(best).ulps

\* two installed tools have the same confidence for the message, and the
\* intent is for the one that comes first in the installed set
C33_Witness ==
    /\ Matched
    /\ Candidates = {1, 2}
    /\ ConfidenceAt(1) = ConfidenceAt(2)
    /\ answer.intent.type = "execute"
    /\ answer.intent.toolId = answer.result.installed[1]

-----------------------------------------------------------------------------
(* Properties of the rule for the built-in tool *)

\* no rule before the tool match fires on the message, no installed tool
\* scores above 0.3, and the message holds a media keyword
BuiltInCase(message, installed, reg) ==
    LET lowerMessage == Trim(ToLowerCase(message))
    IN  /\ message # ""
        /\ ~IsInstallIntent(lowerMessage)
        /\ ~IsUninstallIntent(lowerMessage)
        /\ ~IsListIntent(lowerMessage)
        /\ ~IsSearchIntent(lowerMessage)
        /\ ~IsHelpIntent(lowerMessage)
        /\ ~FloatGreater(BestMatch(message, installed, reg, NoTool, Float(0)).confidence,
                         Float(30))
        /\ HasMediaKeyword(message)

\* the classifier has failed on a message of the built-in case, and the
\* intent is the one of the rule for the built-in tool
BuiltInIntentReturned ==
    ClassifyReturns /\ answer'.failed
       /\ BuiltInCase(answer'.message, installedTools, tools) =>
         /\ answer'.intent.type = "execute"
         /\ answer'.intent.confidence = 70
         /\ answer'.intent.toolId = BuiltIn

\* an execute intent for the built-in tool is executed with success when the
\* tool is not in the installed set
BuiltInExecuted ==
    ExecuteReturns /\ answer'.intent.type = "execute"
       /\ answer'.intent.toolId = BuiltIn
       /\ ~SetHas(installedTools, BuiltIn) =>
         ~answer'.result.raised /\ answer'.result.success

\* C34: with the classifier failing, when none of the install, uninstall,
\* list, search and help rules fires, no installed tool scores above 0.3 (the
\* installed set may be empty) and the message contains "gif" or "giphy",
\* classify returns an execute intent of confidence 0.7 for the built-in
\* comlink.giphy, and executing that intent succeeds although the tool is
\* not installed.
C34_BuiltInLastResort ==
    [][BuiltInIntentReturned]_vars /\ [][BuiltInExecuted]_vars

-----------------------------------------------------------------------------
(* Properties of the order of the results of searchTools *)

\* the record matches the query through its identifier only
MatchesIdOnly(tool, lowerQuery) ==
    /\ Includes(ToLowerCase(tool.id), lowerQuery)
    /\ ~Includes(ToLowerCase(tool.name), lowerQuery)
    /\ ~Includes(ToLowerCase(tool.description), lowerQuery)
    /\ ~SomeTagIncludes(tool, lowerQuery)

-----------------------------------------------------------------------------
(* ToolCache with a snapshot kept while the registry changes *)

\* toolCache.addTool(tool) by a caller that holds a snapshot and keeps it
CallAddToolHeld(tool) ==
    /\ answer.op = "export"
    /\ HasTool(tools, tool.id) \/ Len(tools) < MaxTools
    /\ tools' = AddTool(tools, tool, now)
    /\ UNCHANGED <<lastScan, now, ticks, scanning, scanReq, scanAnswer, scanResp, scanResult,
                   installedTools, userSessions, calls, served, answer>>

\* a caller that exports, goes on using the registry, and imports what it
\* exported
NextSnapshot ==
    \/ \E tool \in ToolPool : CallAddTool(tool)
    \/ \E tool \in ToolPool : CallAddToolHeld(tool)
    \/ \E id \in CacheIds : CallGetTool(id)
    \/ \E id \in CacheIds : CallRemoveTool(id)
    \/ CallUpdateLastScan
    \/ CallExport
    \/ CallImport
    \/ Tick

SpecSnapshot == Init /\ [][NextSnapshot]_vars

-----------------------------------------------------------------------------
(* Properties of the records of the registry *)

\* C36: the lastSeen of the record of an identifier never decreases in a step
\* of the registry (addTool, the update of a record found again, import) that
\* leaves the identifier in the registry.
C36_LastSeenMonotone ==
    [][\A id \in CacheIds :
          (HasTool(tools, id) /\ HasTool(tools', id)) =>
             GetTool(tools', id).lastSeen >= GetTool(tools, id).lastSeen]_vars

\* C37: in every state of the registry each record is stored under its own
\* identifier: no two records have the same identifier, the total of
\* getStats is the number of distinct identifiers, and getTool(id) returns
\* nothing or a record whose identifier is id.
C37_StoredUnderOwnId ==
    /\ \A i, j \in 1..Len(tools) : tools[i].id = tools[j].id => i = j
    /\ GetStats(tools, lastScan).total = Cardinality(ResultIds(tools))
    /\ \A id \in CacheIds : GetTool(tools, id) = NoTool \/ GetTool(tools, id).id = id
    /\ answer.op = "getTool" =>
          answer.result.tool = NoTool \/ answer.result.tool.id = answer.message

\* getTool has returned a record of a registry of two records
C37_Witness ==
    /\ answer.op = "getTool"
    /\ answer.result.tool # NoTool
    /\ answer.result.tool.id = answer.message
    /\ Len(tools) = 2

\* a step in which removeTool returns
RemoveReturns == answer'.op = "removeTool" /\ (answer' # answer \/ tools' # tools)

\* C38: import(snapshot) replaces the whole state of the registry: afterwards
\* the registry holds the records of the snapshot and no other, and its time
\* of the last scan is the one of the snapshot. removeTool(id) returns true
\* exactly when id was in the registry; afterwards getTool(id) finds nothing,
\* and every other record and the time of the last scan are as before.
C38_ImportReplacesRemoveFrames ==
    /\ [][ImportReturns =>
            /\ Range(tools') = Range(answer.result.data.tools)
            /\ Len(tools') = Cardinality(Range(answer.result.data.tools))
            /\ lastScan' = answer.result.data.lastScan]_vars
    /\ [][RemoveReturns =>
            /\ answer'.result.deleted = HasTool(tools, answer'.message)
            /\ GetTool(tools', answer'.message) = NoTool
            /\ \A id \in CacheIds \ {answer'.message} :
                  GetTool(tools', id) = GetTool(tools, id)
            /\ Len(tools') = Len(tools) - (IF HasTool(tools, answer'.message) THEN 1 ELSE 0)
            /\ lastScan' = lastScan]_vars

\* a snapshot has been imported into a registry that had another record and
\* another time of the last scan the moment before
C38_Witness ==
    /\ answer.op = "import"
    /\ answer.result.data.tools # <<>>
    /\ answer.result.data.lastScan # NoDate
    /\ tools = answer.result.data.tools
    /\ lastScan = answer.result.data.lastScan
    /\ lastScan < now - ScanInterval

-----------------------------------------------------------------------------
(* Messages that are absent, empty or not strings *)

InvalidMessages == {"", Undefined, Null, ANumber}

\* the orchestrator and the server, one request at a time, handed invalid
\* messages and a message that installs a tool
NextInvalid ==
    \/ \E message \in InvalidMessages \cup {"install giphy"} : ProcessMessage(1, message)
    \/ \E u \in Users, message \in InvalidMessages \cup {"install giphy"} :
            HandleProcessMessage(1, u, message)
    \/ \E response \in ServedAnalyzeResponses : AnalyzeSettles(1, response)
    \/ \E response \in ServedSelectResponses : SelectSettles(1, response)
    \/ \E resp \in FeedResponses : LookupSettles(1, resp)

SpecInvalid == Init /\ [][NextInvalid]_vars

\* C39: a message that is absent, empty or not a string is dealt with on the
\* spot: processMessage returns an unknown intent of confidence 0.0 with no
\* parameters and starts no call of the external classifier; process_message
\* returns an error result and changes no session and nothing of the
\* registry.
C39_InvalidMessageRecovered ==
    /\ [][\A message \in InvalidMessages :
            ProcessMessage(1, message) =>
               /\ answer'.op = "processMessage"
               /\ answer'.intent.type = "unknown"
               /\ answer'.intent.confidence = 0
               /\ answer'.intent.ulps = 0
               /\ answer'.intent.parameters = NoParams
               /\ calls' = calls]_vars
    /\ [][\A u \in Users, message \in InvalidMessages :
            HandleProcessMessage(1, u, message) =>
               /\ answer'.op = "process_message"
               /\ ~answer'.result.success
               /\ StartsWith(answer'.result.content, "Error: Invalid message parameter.")
               /\ calls' = calls
               /\ userSessions' = userSessions
               /\ tools' = tools
               /\ lastScan' = lastScan]_vars

\* process_message has answered an invalid message of a user whose session
\* holds a tool, the registry holding one too
C39_Witness ==
    /\ answer.op = "process_message"
    /\ answer.message \in InvalidMessages
    /\ ~answer.result.success
    /\ userSessions[answer.user] # <<>>
    /\ tools # <<>>

====
